---- MODULE Spec2Model ----
(***************************************************************************)
(* Model of the Mooltipass USB command dispatcher, usbProcessIncoming() in *)
(* src/source_code/src/USB/usb_cmd_parser.c, together with the session,    *)
(* flash and staging-buffer state its handlers read and write.             *)
(*                                                                         *)
(* One step of the model is one call of usbProcessIncoming() that received *)
(* a packet, or one card event of the environment.  Sizes are scaled down  *)
(* (a node is NODE_SIZE bytes, a page holds NODES_PER_PAGE nodes) but keep *)
(* the relations of the firmware: a node needs more than one write packet  *)
(* and NODE_SIZE is not a multiple of the packet capacity.                 *)
(***************************************************************************)
EXTENDS Integers, Sequences, FiniteSets, TLC

(***************************************************************************)
(* Sizes                                                                   *)
(***************************************************************************)
\* bytes of one node in flash
NODE_SIZE == 5
\* payload bytes of one HID packet (RAWHID_TX_SIZE - HID_DATA_START)
PACKET_EXPORT_SIZE == 5
\* node slots per flash page
NODES_PER_PAGE == 2
\* node pages are 1..NumPages; page 0 is outside the node storage
NumPages == 2
\* users are 1..NumUsers
NumUsers == 2
\* span of the user-id field inside the high byte of a node's flags
UID_SPAN == 4

BYTES_PER_PAGE == NODE_SIZE * NODES_PER_PAGE
\* data bytes of one CMD_WRITE_FLASH_NODE packet (address and sub-index taken off)
WritePacketCapacity == PACKET_EXPORT_SIZE - 3
\* sub-index of the packet that flushes the staging buffer
LastSubIndex == NODE_SIZE \div WritePacketCapacity

NODE_ADDR_NULL == 0
PLUGIN_BYTE_ERROR == 0
PLUGIN_BYTE_OK == 1
PLUGIN_BYTE_NA == 2
PLUGIN_BYTE_NOCARD == 3

USB_CALLER_MAIN == "USB_CALLER_MAIN"
USB_CALLER_PIN == "USB_CALLER_PIN"
Callers == {USB_CALLER_MAIN, USB_CALLER_PIN}

Users == 1..NumUsers
\* value of the current user id while nobody is authenticated
NO_USER == 0
Pages == 0..NumPages

(***************************************************************************)
(* Command ids.  The numeric values live in usb_cmd_parser.h; the model    *)
(* keeps the names and the membership of the data-management range.        *)
(***************************************************************************)
DataMgmtCmds ==
    { "CMD_READ_FLASH_NODE", "CMD_WRITE_FLASH_NODE", "CMD_GET_FAVORITE",
      "CMD_SET_FAVORITE", "CMD_GET_STARTING_PARENT", "CMD_SET_STARTING_PARENT",
      "CMD_GET_CTRVALUE", "CMD_SET_CTRVALUE", "CMD_ADD_CARD_CPZ_CTR",
      "CMD_GET_CARD_CPZ_CTR", "CMD_CARD_CPZ_CTR_PACKET", "CMD_GET_FREE_SLOTS_ADDR",
      "CMD_GET_DN_START_PARENT", "CMD_SET_DN_START_PARENT", "CMD_END_MEMORYMGMT" }

ServiceNameCmds ==
    { "CMD_CONTEXT", "CMD_ADD_CONTEXT", "CMD_SET_DATA_SERVICE", "CMD_ADD_DATA_SERVICE" }

TextFieldCmds ==
    ServiceNameCmds \cup
    { "CMD_SET_LOGIN", "CMD_SET_PASSWORD", "CMD_CHECK_PASSWORD",
      "CMD_SET_CARD_LOGIN", "CMD_SET_CARD_PASS" }

(***************************************************************************)
(* State                                                                   *)
(***************************************************************************)
VARIABLES
    memoryManagementModeApproved,   \* usb_cmd_parser.c:56
    currentNodeWritten,             \* usb_cmd_parser.c:60
    flash,                          \* flash[page] = bytes of the page
    flashBuf,                       \* the flash chip's staging buffer, one page
    cardAbsent,                     \* isSmartCardAbsent() == RETURN_OK
    cardUnlocked,                   \* getSmartCardInsertedUnlocked()
    cardUser,                       \* the user the inserted card belongs to
    currentUserID,                  \* getCurrentUserID()
    currentScreen,                  \* getCurrentScreen()
    favorites,                      \* favorites[user][slot] = <<parent, child>>
    startingParent,                 \* startingParent[user]
    dataStartingParent,             \* dataStartingParent[user]
    profileCtr,                     \* profileCtr[user]
    dataBlocks,                     \* data contexts: <<user, type, name>> -> blocks appended
    services,                       \* parent nodes: <<user, type, name>> -> the child's login
    currentContext,                 \* the parent selected for get/set operations
    mediaFlashImportApproved,       \* usb_cmd_parser.c:58
    mediaFlashImportPage,           \* usb_cmd_parser.c:62
    mediaFlashImportOffset,         \* usb_cmd_parser.c:64
    eepUidRequestKeySet,            \* EEPROM byte at EEP_UID_REQUEST_KEY_SET_ADDR
    eepUidBlock,                    \* EEPROM bytes at EEP_UID_REQUEST_KEY_ADDR: request key, UID
    eepBootPwdSet,                  \* EEPROM byte at EEP_BOOT_PWD_SET
    eepBootPwd,                     \* EEPROM bytes at EEP_BOOT_PWD
    eepBootkey,                     \* EEPROM word at EEP_BOOTKEY_ADDR
    eepBackupBootkey,               \* EEPROM word at EEP_BACKUP_BOOTKEY_ADDR
    mpParams,                       \* EEPROM parameter bytes written so far: id -> value
    mp_timeout_enabled,             \* cached copy of the lock-timeout parameter
    cardZones,                      \* cardZones[card] = login and password fields of the card
    rx,                             \* the packet of the last call and its caller
    sent,                           \* the messages the last call sent, in order
    calls,                          \* the collaborator calls of the last call, in order
    viaTrailer,                     \* history: the last response left through the trailer
    mgmtEnded,                      \* history: CMD_END_MEMORYMGMT accepted, no start since
    writtenSubs,                    \* history: sub-indexes accepted for the current target
    wrSeq,                          \* history: the in-order write sequence under way
    nPackets,                       \* history: packets received so far
    favHist,                        \* history: the pair last set in each favorite slot
    addedNames,                     \* history: <<user, type, name as sent>> of each context added
    loginHist,                      \* history: the login as sent that was last set in a context
    readEnd,                        \* history: payload bytes data[0..readEnd-1] the last call read
    wrImage,                        \* history: the node under write, and its page as loaded
                                    \* with the payloads accepted for the node laid over it
    importOpen,                     \* history: the last CMD_IMPORT_MEDIA_START was answered OK,
                                    \* no CMD_IMPORT_MEDIA_END or refused CMD_IMPORT_MEDIA since
    pc,                             \* where usbProcessIncoming stands: not called, called,
                                    \* waiting at usb_cmd_parser.c:88, spinning at :1261
    pending,                        \* the caller and the packet of the call under way
    waited                          \* polls of the call under way that found the timer running

sessionVars == <<cardAbsent, cardUnlocked, cardUser, currentUserID, currentScreen>>
mgmtVars == <<memoryManagementModeApproved, currentNodeWritten>>
flashVars == <<flash, flashBuf>>
profileVars == <<favorites, startingParent, dataStartingParent, profileCtr, dataBlocks>>
contextVars == <<services, currentContext>>
mediaVars == <<mediaFlashImportApproved, mediaFlashImportPage, mediaFlashImportOffset>>
eepromVars == <<eepUidRequestKeySet, eepUidBlock, eepBootPwdSet, eepBootPwd, eepBootkey,
               eepBackupBootkey, mpParams, mp_timeout_enabled>>
deviceVars == <<mediaVars, eepromVars, cardZones>>
histVars == <<rx, sent, calls, viaTrailer>>
ghostVars == <<mgmtEnded, writtenSubs, wrSeq, nPackets>>
obsVars == <<favHist, addedNames, loginHist, readEnd, importOpen, wrImage>>
callVars == <<pc, pending, waited>>
vars == <<mgmtVars, flashVars, sessionVars, profileVars, contextVars, deviceVars, histVars,
         ghostVars, obsVars, callVars>>

\* the session, in-flight and persistent state of the program
programVars == <<mgmtVars, flashVars, sessionVars, profileVars, contextVars, deviceVars>>

(***************************************************************************)
(* Node addresses and node bytes                                           *)
(***************************************************************************)
pageNumberFromAddress(addr) == addr \div NODES_PER_PAGE
nodeNumberFromAddress(addr) == addr % NODES_PER_PAGE
NodeAddress(page, slot) == page * NODES_PER_PAGE + slot
NodeAddrs == { NodeAddress(p, s) : p \in 1..NumPages, s \in 0..(NODES_PER_PAGE - 1) }

\* the user id held in a flags word given as its two bytes (little endian)
userIdFromFlags(lo, hi) == hi % UID_SPAN
\* the high byte of the flags word after userIdToFlags(&flags, uid)
FlagsHiWithUser(hi, uid) == (hi \div UID_SPAN) * UID_SPAN + uid

\* the NODE_SIZE bytes of the node in slot `slot` of a page
NodeBytes(page, slot) == SubSeq(page, slot * NODE_SIZE + 1, (slot + 1) * NODE_SIZE)

\* bytes `data` copied into `buf` from byte offset `off` (0-based)
WriteAt(buf, off, data) ==
    [ i \in 1..Len(buf) |->
        IF i > off /\ i <= off + Len(data) THEN data[i - off] ELSE buf[i] ]

InitialOwner(p, s) == ((p + s) % NumUsers) + 1
InitialNode(p, s) == [ i \in 1..NODE_SIZE |-> IF i = 2 THEN InitialOwner(p, s) ELSE 0 ]
InitialPage(p) ==
    [ i \in 1..BYTES_PER_PAGE |->
        IF p = 0 THEN 0
        ELSE InitialNode(p, (i - 1) \div NODE_SIZE)[((i - 1) % NODE_SIZE) + 1] ]

\* checkUserPermission(addr): the node's embedded user id against the session user
checkUserPermission(addr) ==
    /\ pageNumberFromAddress(addr) \in 1..NumPages
    /\ LET node == NodeBytes(flash[pageNumberFromAddress(addr)], nodeNumberFromAddress(addr))
       IN  userIdFromFlags(node[1], node[2]) = currentUserID


(***************************************************************************)
(* Packets, responses and the call trace                                   *)
(***************************************************************************)
\* body.data[i] of the incoming buffer (0-based).  Bytes the host did not fill
\* are 0; a read past the transport buffer yields the stack byte `g`.
Byte(p, i, g) ==
    IF i < Len(p.data) THEN p.data[i + 1]
    ELSE IF i < PACKET_EXPORT_SIZE THEN 0 ELSE g

\* a uint16_t read at body.data[i] (little endian)
Word(p, i, g) == Byte(p, i, g) + 256 * Byte(p, i + 1, g)

WordBytes(w) == << w % 256, w \div 256 >>

\* usbSendMessage(cmd, len, data)
Msg(cmd, len, data) == [ cmd |-> cmd, len |-> len, data |-> data ]
StatusByteMsg(cmd, value) == Msg(cmd, 1, << value >>)

Call(f, v) == << f, v >>
BoolVal(b) == IF b THEN 1 ELSE 0
RETURN_OK == 1
RETURN_NOK == 0

\* the call that redraws the screen shown before a prompt, usb_cmd_parser.c:528
guiGetBackToCurrentScreenSkipped == << >>
guiGetBackToCurrentScreen == << Call("guiGetBackToCurrentScreen", 0) >>

CallNames(cs) == { cs[i][1] : i \in 1..Len(cs) }
\* the first position of a call of `f` in the trace, 0 when there is none
FirstCall(cs, f) ==
    IF f \in CallNames(cs) THEN CHOOSE i \in 1..Len(cs) :
                                    /\ cs[i][1] = f
                                    /\ \A j \in 1..(i - 1) : cs[j][1] # f
    ELSE 0

\* no call of usbProcessIncoming is under way
NoPending == << >>
\* the call armed the watchdog and spins until the reset,
\* usb_cmd_parser.c:1256-1261
SpinsAlways(cs) == TRUE
SpinsUntilReset(cs) == "wdt_enable_2s" \in CallNames(cs)

\* what every call of usbProcessIncoming leaves behind for the observer
Return(caller, p, msgs, cs, trailer) ==
    /\ rx' = [ caller |-> caller, cmd |-> p.cmd, len |-> p.len, data |-> p.data ]
    /\ nPackets' = nPackets + 1
    /\ sent' = msgs
    /\ calls' = cs
    /\ viaTrailer' = trailer
    /\ pc' = IF SpinsUntilReset(cs) THEN "spinning" ELSE "idle"
    /\ pending' = NoPending
    /\ waited' = 0
\* a return from inside the function, after msgs were sent
Finish(caller, p, msgs, cs) == Return(caller, p, msgs, cs, FALSE)

NoSeq == [ addr |-> NODE_ADDR_NULL, page0 |-> << >>, chunks |-> << >> ]
\* a step that is no CMD_WRITE_FLASH_NODE packet interrupts a write sequence
GhostIdle == wrSeq' = NoSeq /\ UNCHANGED << mgmtEnded, writtenSubs >>

(***************************************************************************)
(* The first three stages of usbProcessIncoming                            *)
(***************************************************************************)
\* usb_cmd_parser.c:186
IsStatusRequestNoCmd(caller, cmd) == caller = USB_CALLER_PIN
IsStatusRequest(caller, cmd) ==
    (caller = USB_CALLER_PIN) \/ (cmd = "CMD_MOOLTIPASS_STATUS")

SCREEN_DEFAULT_NINSERTED == "SCREEN_DEFAULT_NINSERTED"
SCREEN_DEFAULT_INSERTED_LCK == "SCREEN_DEFAULT_INSERTED_LCK"
SCREEN_DEFAULT_INSERTED_NLCK == "SCREEN_DEFAULT_INSERTED_NLCK"
SCREEN_DEFAULT_INSERTED_UNKNOWN == "SCREEN_DEFAULT_INSERTED_UNKNOWN"
SCREEN_MEMORY_MGMT == "SCREEN_MEMORY_MGMT"

\* usb_cmd_parser.c:188-208
MpStatusPresenceOnly(caller) == BoolVal(~cardAbsent)
MpStatus(caller) ==
    BoolVal(~cardAbsent)
    + 2 * BoolVal(caller = USB_CALLER_PIN)
    + 4 * BoolVal(cardUnlocked)
    + 8 * BoolVal(currentScreen = SCREEN_DEFAULT_INSERTED_UNKNOWN)

StatusReply(caller, p) ==
    /\ Finish(caller, p,
              << StatusByteMsg("CMD_MOOLTIPASS_STATUS", MpStatus(caller)) >>,
              << Call("isSmartCardAbsent", BoolVal(cardAbsent)),
                 Call("getSmartCardInsertedUnlocked", BoolVal(cardUnlocked)),
                 Call("getCurrentScreen", 0) >>)
    /\ UNCHANGED programVars
    /\ GhostIdle

\* bytes strlen() is followed through before the model stops counting: the
\* transport buffer and a few bytes of what lies behind it
MaxStrLen == PACKET_EXPORT_SIZE + 3
\* strlen() of the payload: the index of its first null byte
RECURSIVE StrLenFrom(_, _, _)
StrLenFrom(p, i, g) ==
    IF Byte(p, i, g) = 0 \/ i >= MaxStrLen THEN i ELSE StrLenFrom(p, i + 1, g)
StrLen(p, g) == StrLenFrom(p, 0, g)

NODE_PARENT_SIZE_OF_SERVICE == 4
NODE_CHILD_SIZE_OF_LOGIN == 3
NODE_CHILD_SIZE_OF_PASSWORD == 3
SMARTCARD_MTP_LOGIN_SIZE == 3
SMARTCARD_MTP_PASS_SIZE == 3

\* usb_cmd_parser.c:215-240
MaxTextSize(cmd) ==
    IF cmd \in ServiceNameCmds THEN NODE_PARENT_SIZE_OF_SERVICE
    ELSE IF cmd = "CMD_SET_LOGIN" THEN NODE_CHILD_SIZE_OF_LOGIN
    ELSE IF cmd \in { "CMD_SET_PASSWORD", "CMD_CHECK_PASSWORD" } THEN NODE_CHILD_SIZE_OF_PASSWORD
    ELSE IF cmd = "CMD_SET_CARD_LOGIN" THEN SMARTCARD_MTP_LOGIN_SIZE
    ELSE IF cmd = "CMD_SET_CARD_PASS" THEN SMARTCARD_MTP_PASS_SIZE
    ELSE 0

\* checkTextField(data, len, max_len) == RETURN_OK, usb_cmd_parser.c:132-148
checkTextFieldNoTerminator(p, g, max_len) ==
    ~ \/ p.len > max_len
      \/ p.len = 0
      \/ p.len > PACKET_EXPORT_SIZE
checkTextField(p, g, max_len) ==
    ~ \/ p.len > max_len
      \/ p.len = 0
      \/ p.len # StrLen(p, g) + 1
      \/ p.len > PACKET_EXPORT_SIZE

\* usb_cmd_parser.c:243
TextFieldRejected(p, g) ==
    p.cmd \in TextFieldCmds /\ ~checkTextField(p, g, MaxTextSize(p.cmd))

\* usb_cmd_parser.c:251
PrivilegeRejectedOff(cmd) == FALSE
PrivilegeRejected(cmd) ==
    cmd \in DataMgmtCmds /\ memoryManagementModeApproved = FALSE

\* usb_cmd_parser.c:246-247 and 254-255: the error byte, nothing else
ErrorReply(caller, p) ==
    /\ Return(caller, p, << StatusByteMsg(p.cmd, PLUGIN_BYTE_ERROR) >>, << >>, TRUE)
    /\ UNCHANGED programVars
    /\ GhostIdle

\* the shared trailer, usb_cmd_parser.c:1410
TrailerNoEcho(caller, p, value, cs) ==
    Return(caller, p, << StatusByteMsg("CMD_PLEASE_RETRY", value) >>, cs, TRUE)
Trailer(caller, p, value, cs) ==
    Return(caller, p, << StatusByteMsg(p.cmd, value) >>, cs, TRUE)


(***************************************************************************)
(* Card events.  The card driver and the main loop are outside this file;  *)
(* the only code of it here is leaveMemoryManagementMode(), the hook the   *)
(* card-removal handler calls.                                             *)
(***************************************************************************)
\* leaveMemoryManagementMode(), usb_cmd_parser.c:107-110: the new values of
\* << memoryManagementModeApproved, currentNodeWritten >>
leaveMemoryManagementModeKeepsFlag == << memoryManagementModeApproved, currentNodeWritten >>
leaveMemoryManagementMode == << FALSE, currentNodeWritten >>

\* the card-removal handler: the session is torn down
CardRemoved ==
    /\ ~cardAbsent
    /\ memoryManagementModeApproved' = leaveMemoryManagementMode[1]
    /\ currentNodeWritten' = leaveMemoryManagementMode[2]
    /\ cardAbsent' = TRUE
    /\ cardUnlocked' = FALSE
    /\ cardUser' = NO_USER
    /\ currentUserID' = NO_USER
    /\ currentScreen' = SCREEN_DEFAULT_NINSERTED
    /\ currentContext' = << >>
    /\ UNCHANGED << deviceVars, flashVars, profileVars, services, histVars, mgmtEnded, writtenSubs,
                    nPackets, obsVars, callVars >>
    /\ wrSeq' = NoSeq

\* a card is inserted: the device asks for the PIN of a known user's card and
\* shows the unknown-card screen for any other card (u = NO_USER)
CardInserted(u) ==
    /\ cardAbsent
    /\ cardAbsent' = FALSE
    /\ cardUser' = u
    /\ currentScreen' = IF u \in Users THEN SCREEN_DEFAULT_INSERTED_LCK
                        ELSE SCREEN_DEFAULT_INSERTED_UNKNOWN
    /\ UNCHANGED << deviceVars, cardUnlocked, currentUserID, mgmtVars, flashVars, profileVars, contextVars,
                    histVars, mgmtEnded, writtenSubs, nPackets, obsVars, callVars >>
    /\ wrSeq' = NoSeq

\* the right PIN was entered on the device
CardUnlockedByPin ==
    /\ ~cardAbsent /\ ~cardUnlocked /\ cardUser \in Users
    /\ cardUnlocked' = TRUE
    /\ currentUserID' = cardUser
    /\ currentScreen' = SCREEN_DEFAULT_INSERTED_NLCK
    /\ UNCHANGED << deviceVars, cardAbsent, cardUser, mgmtVars, flashVars, profileVars, contextVars,
                    histVars, mgmtEnded, writtenSubs, nPackets, obsVars, callVars >>
    /\ wrSeq' = NoSeq

(***************************************************************************)
(* Command handlers                                                        *)
(***************************************************************************)
\* CMD_CANCEL_REQUEST, usb_cmd_parser.c:262-266, and the default case, :1406
HandleSilentAnswered(caller, p) ==
    /\ Trailer(caller, p, PLUGIN_BYTE_ERROR, << >>)
    /\ UNCHANGED programVars
    /\ GhostIdle
HandleSilent(caller, p) ==
    /\ Finish(caller, p, << >>, << >>)
    /\ UNCHANGED programVars
    /\ GhostIdle

\* CMD_PING, usb_cmd_parser.c:269-273: the first 6 bytes of the request go back
HandlePing(caller, p, g) ==
    /\ Finish(caller, p,
              << Msg(p.cmd, p.len, [ i \in 1..4 |-> Byte(p, i - 1, g) ]) >>,
              << Call("usbHidSend", 6) >>)
    /\ UNCHANGED programVars
    /\ GhostIdle

\* the build-time version string, null terminated
MooltipassVersion == << 118, 49, 0 >>

\* CMD_VERSION, usb_cmd_parser.c:276-282
HandleVersion(caller, p) ==
    /\ Finish(caller, p,
              << Msg("CMD_VERSION", Len(MooltipassVersion), MooltipassVersion) >>, << >>)
    /\ UNCHANGED programVars
    /\ GhostIdle

\* CMD_START_MEMORYMGMT, usb_cmd_parser.c:507-531.  `conf` is the user's answer
\* to the prompt, `reauth` the result of removeCardAndReAuthUser(), which takes
\* the card through its removal handler and asks for the PIN again.
\* the three nested conditions, usb_cmd_parser.c:510-516
StartApprovedWithoutReauth(conf, reauth) == cardUnlocked /\ conf = RETURN_OK
StartApproved(conf, reauth) ==
    cardUnlocked /\ conf = RETURN_OK /\ reauth = RETURN_OK

HandleStartMemoryMgmt(caller, p, conf, reauth) ==
    LET asked == cardUnlocked
        reauthed == asked /\ conf = RETURN_OK
        approved == StartApproved(conf, reauth)
        cs == << Call("getSmartCardInsertedUnlocked", BoolVal(cardUnlocked)) >>
              \o (IF asked THEN << Call("guiAskForConfirmation", conf) >> ELSE << >>)
              \o (IF reauthed THEN << Call("removeCardAndReAuthUser", reauth) >> ELSE << >>)
              \o (IF approved THEN << Call("guiSetCurrentScreen", 0) >> ELSE << >>)
              \o (IF reauthed /\ ~approved THEN << Call("guiSetCurrentScreen", 0) >> ELSE << >>)
              \o (IF asked THEN guiGetBackToCurrentScreen ELSE << >>)
    IN  /\ Trailer(caller, p,
                   IF approved THEN PLUGIN_BYTE_OK ELSE PLUGIN_BYTE_ERROR, cs)
        /\ memoryManagementModeApproved' =
              IF approved THEN TRUE
              ELSE IF reauthed THEN leaveMemoryManagementMode[1]
              ELSE memoryManagementModeApproved
        /\ currentNodeWritten' =
              IF reauthed THEN leaveMemoryManagementMode[2] ELSE currentNodeWritten
        /\ cardUnlocked' = IF reauthed THEN approved ELSE cardUnlocked
        /\ currentUserID' = IF reauthed /\ ~approved THEN NO_USER ELSE currentUserID
        /\ currentScreen' =
              IF approved THEN SCREEN_MEMORY_MGMT
              ELSE IF reauthed THEN SCREEN_DEFAULT_INSERTED_LCK
              ELSE currentScreen
        /\ mgmtEnded' = (mgmtEnded /\ ~approved)
        /\ wrSeq' = NoSeq
        /\ currentContext' = IF reauthed THEN << >> ELSE currentContext
        /\ UNCHANGED << deviceVars, cardAbsent, cardUser, flashVars, profileVars, services, writtenSubs >>

\* CMD_END_MEMORYMGMT, usb_cmd_parser.c:587-600
HandleEndMemoryMgmt(caller, p) ==
    /\ Trailer(caller, p, PLUGIN_BYTE_OK,
               << Call("guiSetCurrentScreen", 0),
                  Call("leaveMemoryManagementMode", 0),
                  Call("guiGetBackToCurrentScreen", 0),
                  Call("activityDetectedRoutine", 0),
                  Call("populateServicesLut", 0),
                  Call("scanNodeUsage", 0) >>)
    /\ currentNodeWritten' = NODE_ADDR_NULL
    /\ memoryManagementModeApproved' = leaveMemoryManagementMode[1]
    /\ currentScreen' = SCREEN_DEFAULT_INSERTED_NLCK
    /\ mgmtEnded' = TRUE
    /\ writtenSubs' = {}
    /\ wrSeq' = NoSeq
    /\ UNCHANGED << deviceVars, cardAbsent, cardUnlocked, cardUser, currentUserID, flashVars, contextVars,
                    profileVars >>


\* CMD_READ_FLASH_NODE, usb_cmd_parser.c:603-632
\* readNode(buffer, addr): the bytes of the node; an address outside the flash
\* reads page 0
readNode(addr) ==
    NodeBytes(flash[IF pageNumberFromAddress(addr) \in Pages
                    THEN pageNumberFromAddress(addr) ELSE 0],
              nodeNumberFromAddress(addr))

\* usb_cmd_parser.c:607 and :615
ReadPermittedLenOnly(len, addr) == len = 2
ReadPermitted(len, addr) == len = 2 /\ checkUserPermission(addr)

HandleReadFlashNode(caller, p, g) ==
    LET addr == Word(p, 0, g)
        permitted == ReadPermitted(p.len, addr)
        cs == IF p.len = 2
              THEN << Call("checkUserPermission", BoolVal(permitted)) >>
                   \o (IF permitted THEN << Call("readNode", addr) >> ELSE << >>)
              ELSE << >>
    IN  /\ IF permitted
           THEN Finish(caller, p,
                       << Msg(p.cmd, NODE_SIZE, readNode(addr)) >>, cs)
           ELSE Trailer(caller, p, PLUGIN_BYTE_ERROR, cs)
        /\ UNCHANGED programVars
        /\ GhostIdle

\* the bytes msg->body.data + 3 .. of a write packet after userIdToFlags() on the
\* first packet: `n` bytes are copied, whatever the host filled
WritePayload(p, g, n, stamp) ==
    [ i \in 1..n |->
        IF stamp /\ i = 2 THEN FlagsHiWithUser(Byte(p, 4, g), currentUserID)
        ELSE Byte(p, i + 2, g) ]

\* usb_cmd_parser.c:798
WriteAccepted(len, addr, target, sub) ==
    /\ len >= 3
    /\ target = addr
    /\ target # NODE_ADDR_NULL
    /\ sub * WritePacketCapacity + (len - 3) <= NODE_SIZE

\* the staging-buffer offset of a packet's bytes, usb_cmd_parser.c:807
WriteOffsetNoSlot(target, sub) == sub * WritePacketCapacity
WriteOffset(target, sub) ==
    NODE_SIZE * nodeNumberFromAddress(target) + sub * WritePacketCapacity

\* usb_cmd_parser.c:810
IsLastPacketAlways(sub) == TRUE
IsLastPacket(sub) == sub = LastSubIndex

\* CMD_WRITE_FLASH_NODE, usb_cmd_parser.c:774-823
HandleWriteFlashNode(caller, p, g) ==
    LET addr == Word(p, 0, g)
        sub == Byte(p, 2, g)
        checked == p.len >= 3 /\ sub = 0
        permitted == checked /\ checkUserPermission(addr)
        \* :792-793
        target == IF permitted THEN addr ELSE currentNodeWritten
        loaded == IF permitted THEN flash[pageNumberFromAddress(addr)] ELSE flashBuf
        \* :798
        accepted == WriteAccepted(p.len, addr, target, sub)
        offset == WriteOffset(target, sub)
        \* :807
        staged == IF accepted
                  THEN WriteAt(loaded, offset, WritePayload(p, g, p.len - 3, sub = 0))
                  ELSE loaded
        \* :810
        flushed == accepted /\ IsLastPacket(sub)
        cs == (IF checked THEN << Call("checkUserPermission", BoolVal(permitted)) >> ELSE << >>)
              \o (IF permitted
                  THEN << Call("loadPageToInternalBuffer", pageNumberFromAddress(addr)) >>
                  ELSE << >>)
              \o (IF accepted /\ sub = 0 THEN << Call("userIdToFlags", currentUserID) >> ELSE << >>)
              \o (IF accepted THEN << Call("flashWriteBuffer", offset) >> ELSE << >>)
              \o (IF flushed
                  THEN << Call("flashWriteBufferToPage", pageNumberFromAddress(target)) >>
                  ELSE << >>)
        raw == [ i \in 1..(p.len - 3) |-> Byte(p, i + 2, g) ]
    IN  /\ Trailer(caller, p, IF accepted THEN PLUGIN_BYTE_OK ELSE PLUGIN_BYTE_ERROR, cs)
        /\ currentNodeWritten' = target
        /\ flashBuf' = staged
        /\ flash' = IF flushed
                    THEN [ flash EXCEPT ![pageNumberFromAddress(target)] = staged ]
                    ELSE flash
        /\ UNCHANGED << deviceVars, memoryManagementModeApproved, sessionVars, profileVars, contextVars,
                        mgmtEnded >>
        /\ writtenSubs' = IF permitted THEN (IF accepted THEN { 0 } ELSE {})
                          ELSE IF accepted THEN writtenSubs \cup { sub }
                          ELSE writtenSubs
        /\ wrSeq' = IF accepted /\ permitted
                    THEN [ addr |-> addr, page0 |-> loaded, chunks |-> << raw >> ]
                    ELSE IF accepted /\ sub > 0 /\ wrSeq.addr = addr
                            /\ sub = Len(wrSeq.chunks)
                    THEN [ wrSeq EXCEPT !.chunks = Append(@, raw) ]
                    ELSE IF ~accepted /\ ~permitted THEN wrSeq
                    ELSE NoSeq

\* entries of the per-user favorites table
NumFavorites == 2
USER_CTR_SIZE == 3
NoFavorite == << NODE_ADDR_NULL, NODE_ADDR_NULL >>
FavSlots == 0..(NumFavorites - 1)
NoFavorites == [ u \in 0..NumUsers |-> [ slot \in FavSlots |-> NoFavorite ] ]

\* setFav(slot, parent, child) and readFav(slot, &parent, &child) on the profile
\* of user `uid`.  A slot outside the table is outside their contract: the
\* table is left as it is and the null pair is read.
setFav(favs, uid, slot, pair) ==
    IF slot \in FavSlots THEN [ favs EXCEPT ![uid][slot] = pair ] ELSE favs
readFav(favs, uid, slot) ==
    IF slot \in FavSlots THEN favs[uid][slot] ELSE NoFavorite

\* the parent and child address of a CMD_SET_FAVORITE packet, usb_cmd_parser.c:641-642
FavoritePairSwapped(p, g) == << Word(p, 3, g), Word(p, 1, g) >>
FavoritePair(p, g) == << Word(p, 1, g), Word(p, 3, g) >>

\* CMD_GET_STARTING_PARENT and CMD_GET_DN_START_PARENT, usb_cmd_parser.c:534-559
HandleGetAddress(caller, p, value, f) ==
    /\ Finish(caller, p, << Msg(p.cmd, 2, WordBytes(value)) >>, << Call(f, 0) >>)
    /\ UNCHANGED programVars
    /\ GhostIdle

\* CMD_SET_STARTING_PARENT, usb_cmd_parser.c:674-689
HandleSetStartingParent(caller, p, g) ==
    /\ IF p.len = 2
       THEN /\ Trailer(caller, p, PLUGIN_BYTE_OK, << Call("setStartingParent", Word(p, 0, g)) >>)
            /\ startingParent' = [ startingParent EXCEPT ![currentUserID] = Word(p, 0, g) ]
       ELSE /\ Trailer(caller, p, PLUGIN_BYTE_ERROR, << >>)
            /\ UNCHANGED startingParent
    /\ UNCHANGED << deviceVars, mgmtVars, flashVars, sessionVars, contextVars, favorites,
                    dataStartingParent, profileCtr, dataBlocks >>
    /\ GhostIdle

\* CMD_SET_DN_START_PARENT, usb_cmd_parser.c:692-707
HandleSetDnStartParent(caller, p, g) ==
    /\ IF p.len = 2
       THEN /\ Trailer(caller, p, PLUGIN_BYTE_OK,
                       << Call("setDataStartingParent", Word(p, 0, g)) >>)
            /\ dataStartingParent' =
                  [ dataStartingParent EXCEPT ![currentUserID] = Word(p, 0, g) ]
       ELSE /\ Trailer(caller, p, PLUGIN_BYTE_ERROR, << >>)
            /\ UNCHANGED dataStartingParent
    /\ UNCHANGED << deviceVars, mgmtVars, flashVars, sessionVars, contextVars, favorites, startingParent,
                    profileCtr, dataBlocks >>
    /\ GhostIdle

\* CMD_SET_FAVORITE, usb_cmd_parser.c:635-652
HandleSetFavorite(caller, p, g) ==
    /\ IF p.len = 5
       THEN /\ Trailer(caller, p, PLUGIN_BYTE_OK, << Call("setFav", Byte(p, 0, g)) >>)
            /\ favorites' = setFav(favorites, currentUserID, Byte(p, 0, g), FavoritePair(p, g))
       ELSE /\ Trailer(caller, p, PLUGIN_BYTE_ERROR, << >>)
            /\ UNCHANGED favorites
    /\ UNCHANGED << deviceVars, mgmtVars, flashVars, sessionVars, contextVars, startingParent,
                    dataStartingParent,
                    profileCtr, dataBlocks >>
    /\ GhostIdle

\* CMD_GET_FAVORITE, usb_cmd_parser.c:655-671
HandleGetFavorite(caller, p, g) ==
    /\ IF p.len = 1
       THEN Finish(caller, p,
                   << Msg(p.cmd, 4,
                          WordBytes(readFav(favorites, currentUserID, Byte(p, 0, g))[1])
                          \o WordBytes(readFav(favorites, currentUserID, Byte(p, 0, g))[2])) >>,
                   << Call("readFav", Byte(p, 0, g)) >>)
       ELSE Trailer(caller, p, PLUGIN_BYTE_ERROR, << >>)
    /\ UNCHANGED programVars
    /\ GhostIdle

\* CMD_SET_CTRVALUE, usb_cmd_parser.c:710-724
HandleSetCtrValue(caller, p, g) ==
    /\ IF p.len = USER_CTR_SIZE
       THEN /\ Trailer(caller, p, PLUGIN_BYTE_OK, << Call("setProfileCtr", 0) >>)
            /\ profileCtr' =
                  [ profileCtr EXCEPT ![currentUserID] =
                        [ i \in 1..USER_CTR_SIZE |-> Byte(p, i - 1, g) ] ]
       ELSE /\ Trailer(caller, p, PLUGIN_BYTE_ERROR, << >>)
            /\ UNCHANGED profileCtr
    /\ UNCHANGED << deviceVars, mgmtVars, flashVars, sessionVars, contextVars, favorites, startingParent,
                    dataStartingParent, dataBlocks >>
    /\ GhostIdle

\* CMD_GET_CTRVALUE, usb_cmd_parser.c:727-739
HandleGetCtrValue(caller, p) ==
    /\ Finish(caller, p, << Msg(p.cmd, USER_CTR_SIZE, profileCtr[currentUserID]) >>,
              << Call("readProfileCtr", 0) >>)
    /\ UNCHANGED programVars
    /\ GhostIdle


(***************************************************************************)
(* Text fields and the credential contexts                                 *)
(***************************************************************************)
SERVICE_CRED_TYPE == "SERVICE_CRED_TYPE"
SERVICE_DATA_TYPE == "SERVICE_DATA_TYPE"
ServiceType(cmd) ==
    IF cmd \in { "CMD_CONTEXT", "CMD_ADD_CONTEXT" } THEN SERVICE_CRED_TYPE
    ELSE SERVICE_DATA_TYPE

\* tolower() of one byte
ToLower(b) == IF b \in 65..90 THEN b + 32 ELSE b
\* the string at msg->body.data: the bytes before its first null byte
TextOf(p, g) == [ i \in 1..StrLen(p, g) |-> Byte(p, i - 1, g) ]

\* lowerCaseString(data), usb_cmd_parser.c:116-123
lowerCaseStringOff(str) == str
lowerCaseString(str) == [ i \in 1..Len(str) |-> ToLower(str[i]) ]

\* the text field as an accepted checkTextField leaves it, usb_cmd_parser.c:142-145
CheckedTextLowered(p, g, max_len) == lowerCaseString(TextOf(p, g))
CheckedText(p, g, max_len) ==
    IF max_len = NODE_PARENT_SIZE_OF_SERVICE THEN lowerCaseString(TextOf(p, g))
    ELSE TextOf(p, g)
\* msg->body.data as the handlers of the switch see it
FieldText(p) == CheckedText(p, 0, MaxTextSize(p.cmd))

\* the login and password fields of a card that were never written
NoCardText ==
    [ login |-> [ i \in 1..SMARTCARD_MTP_LOGIN_SIZE |-> 0 ],
      pass |-> [ i \in 1..SMARTCARD_MTP_PASS_SIZE |-> 0 ] ]

\* no parent selected; a parent without a child
NoContext == << >>
NoChild == << >>
ContextKey(uid, type, name) == << uid, type, name >>
Child(login, password) == << [ login |-> login, password |-> password ] >>

\* setCurrentContext(name, type) == RETURN_OK: the parent of that name and type
\* of the active user exists
ContextFound(name, type) == ContextKey(currentUserID, type, name) \in DOMAIN services
\* addNewContext(name, length, type) == RETURN_OK
ContextAddable(name, type) == cardUnlocked /\ ~ContextFound(name, type)
\* setLoginForContext / setPasswordForContext == RETURN_OK
ContextWritable == cardUnlocked /\ currentContext # NoContext
\* getLoginForContext == RETURN_OK
ChildResolved == currentContext # NoContext /\ services[currentContext] # NoChild

\* the lookup is made, usb_cmd_parser.c:294 and :315
ContextLookupAlways == TRUE
ContextLookupAllowed == cardUnlocked

\* CMD_CONTEXT and CMD_SET_DATA_SERVICE, usb_cmd_parser.c:286-331
HandleContext(caller, p) ==
    LET name == FieldText(p)
        type == ServiceType(p.cmd)
        lut == IF p.cmd = "CMD_CONTEXT" /\ memoryManagementModeApproved = TRUE
               THEN << Call("populateServicesLut", 0) >> ELSE << >>
        unl == << Call("getSmartCardInsertedUnlocked", BoolVal(cardUnlocked)) >>
        found == ContextFound(name, type)
        ret == IF found THEN RETURN_OK ELSE RETURN_NOK
    IN  IF ~ContextLookupAllowed
        THEN /\ Trailer(caller, p, PLUGIN_BYTE_NOCARD, lut \o unl)
             /\ UNCHANGED programVars
             /\ GhostIdle
        ELSE /\ Trailer(caller, p, IF found THEN PLUGIN_BYTE_OK ELSE PLUGIN_BYTE_ERROR,
                        lut \o unl \o << Call("setCurrentContext", << name, type, ret >>) >>)
             /\ currentContext' =
                   IF found THEN ContextKey(currentUserID, type, name) ELSE currentContext
             /\ UNCHANGED << deviceVars, mgmtVars, flashVars, sessionVars, profileVars, services >>
             /\ GhostIdle

\* CMD_ADD_CONTEXT and CMD_ADD_DATA_SERVICE, usb_cmd_parser.c:437-470
HandleAddContext(caller, p) ==
    LET name == FieldText(p)
        type == ServiceType(p.cmd)
        ok == ContextAddable(name, type)
        key == ContextKey(currentUserID, type, name)
    IN  /\ Trailer(caller, p, IF ok THEN PLUGIN_BYTE_OK ELSE PLUGIN_BYTE_ERROR,
                   << Call("addNewContext", << name, p.len, type >>) >>)
        /\ services' =
              IF ok THEN [ k \in DOMAIN services \cup { key } |->
                             IF k = key THEN NoChild ELSE services[k] ]
              ELSE services
        /\ currentContext' = IF ok THEN key ELSE currentContext
        /\ UNCHANGED << deviceVars, mgmtVars, flashVars, sessionVars, profileVars >>
        /\ GhostIdle

StoredLogin == IF ChildResolved THEN services[currentContext][1].login ELSE << >>
StoredPassword == IF ChildResolved THEN services[currentContext][1].password ELSE << >>

\* CMD_SET_LOGIN, usb_cmd_parser.c:386-399
HandleSetLogin(caller, p) ==
    LET login == FieldText(p)
        ok == ContextWritable
    IN  /\ Trailer(caller, p, IF ok THEN PLUGIN_BYTE_OK ELSE PLUGIN_BYTE_ERROR,
                   << Call("setLoginForContext", << login, p.len >>) >>)
        /\ services' =
              IF ok THEN [ services EXCEPT ![currentContext] = Child(login, StoredPassword) ]
              ELSE services
        /\ UNCHANGED << deviceVars, mgmtVars, flashVars, sessionVars, profileVars, currentContext >>
        /\ GhostIdle

\* CMD_SET_PASSWORD, usb_cmd_parser.c:402-415
HandleSetPassword(caller, p) ==
    LET password == FieldText(p)
        ok == ContextWritable
    IN  /\ Trailer(caller, p, IF ok THEN PLUGIN_BYTE_OK ELSE PLUGIN_BYTE_ERROR,
                   << Call("setPasswordForContext", << password, p.len >>) >>)
        /\ services' =
              IF ok THEN [ services EXCEPT ![currentContext] = Child(StoredLogin, password) ]
              ELSE services
        /\ UNCHANGED << deviceVars, mgmtVars, flashVars, sessionVars, profileVars, currentContext >>
        /\ GhostIdle

RETURN_PASS_CHECK_NOK == "RETURN_PASS_CHECK_NOK"
RETURN_PASS_CHECK_OK == "RETURN_PASS_CHECK_OK"
RETURN_PASS_CHECK_BLOCKED == "RETURN_PASS_CHECK_BLOCKED"
\* checkPasswordForContext(candidate); `blocked` is the state of its delay timer
checkPasswordForContext(candidate, blocked) ==
    IF blocked \/ ~ChildResolved THEN RETURN_PASS_CHECK_BLOCKED
    ELSE IF candidate = StoredPassword THEN RETURN_PASS_CHECK_OK
    ELSE RETURN_PASS_CHECK_NOK

\* CMD_CHECK_PASSWORD, usb_cmd_parser.c:418-434
HandleCheckPassword(caller, p, blocked) ==
    LET temp_rettype == checkPasswordForContext(FieldText(p), blocked)
    IN  /\ Trailer(caller, p,
                   IF temp_rettype = RETURN_PASS_CHECK_NOK THEN PLUGIN_BYTE_ERROR
                   ELSE IF temp_rettype = RETURN_PASS_CHECK_OK THEN PLUGIN_BYTE_OK
                   ELSE PLUGIN_BYTE_NA,
                   << Call("checkPasswordForContext", FieldText(p)) >>)
        /\ UNCHANGED programVars
        /\ GhostIdle

\* CMD_GET_LOGIN, usb_cmd_parser.c:334-349: the login and its null byte, or the
\* error byte
HandleGetLoginNoReturn(caller, p) ==
    /\ IF ChildResolved
       THEN Return(caller, p,
                   << Msg(p.cmd, Len(StoredLogin) + 1, StoredLogin \o << 0 >>),
                      StatusByteMsg(p.cmd, PLUGIN_BYTE_ERROR) >>,
                   << Call("getLoginForContext", RETURN_OK) >>, TRUE)
       ELSE Trailer(caller, p, PLUGIN_BYTE_ERROR,
                    << Call("getLoginForContext", RETURN_NOK) >>)
    /\ UNCHANGED programVars
    /\ GhostIdle
HandleGetLogin(caller, p) ==
    /\ IF ChildResolved
       THEN Finish(caller, p,
                   << Msg(p.cmd, Len(StoredLogin) + 1, StoredLogin \o << 0 >>) >>,
                   << Call("getLoginForContext", RETURN_OK) >>)
       ELSE Trailer(caller, p, PLUGIN_BYTE_ERROR,
                    << Call("getLoginForContext", RETURN_NOK) >>)
    /\ UNCHANGED programVars
    /\ GhostIdle

\* CMD_SET_CARD_LOGIN and CMD_SET_CARD_PASS, usb_cmd_parser.c:1093-1160: the
\* text goes to the card's zone when the card is unlocked and the user agrees
CardTextWrittenNoConfirm(conf) == cardUnlocked
CardTextWritten(conf) == cardUnlocked /\ conf = RETURN_OK
HandleSetCardText(caller, p, conf) ==
    LET login == p.cmd = "CMD_SET_CARD_LOGIN"
        read == IF login THEN "readApplicationZone2" ELSE "readApplicationZone1"
        write == IF login THEN "writeApplicationZone2" ELSE "writeApplicationZone1"
        text == FieldText(p) \o << 0 >>
        zones == cardZones[cardUser]
        cs == << Call("getSmartCardInsertedUnlocked", BoolVal(cardUnlocked)) >>
              \o (IF cardUnlocked THEN << Call("guiAskForConfirmation", conf) >> ELSE << >>)
              \o (IF CardTextWritten(conf)
                  THEN << Call(read, 0),
                          Call("eraseApplicationZone1NZone2SMC", BoolVal(~login)),
                          Call(write, << FieldText(p), p.len >>) >>
                  ELSE << >>)
              \o (IF cardUnlocked THEN guiGetBackToCurrentScreen ELSE << >>)
    IN  /\ Trailer(caller, p,
                   IF CardTextWritten(conf) THEN PLUGIN_BYTE_OK ELSE PLUGIN_BYTE_ERROR, cs)
        /\ cardZones' =
              IF ~CardTextWritten(conf) THEN cardZones
              ELSE IF login
              THEN [ cardZones EXCEPT ![cardUser].login = WriteAt(zones.login, 0, text) ]
              ELSE [ cardZones EXCEPT ![cardUser].pass = WriteAt(zones.pass, 0, text) ]
        /\ UNCHANGED << mgmtVars, flashVars, sessionVars, profileVars, contextVars, mediaVars,
                        eepromVars >>
        /\ GhostIdle

\* entries of the card table (card identifier and counter) one user can have
MaxCardEntries == 2
\* outputLUTEntriesForGivenUser(uid) on a table holding n entries of that user:
\* one CMD_CARD_CPZ_CTR_PACKET message per entry
outputLUTEntriesForGivenUser(uid, n) ==
    [ i \in 1..n |-> Msg("CMD_CARD_CPZ_CTR_PACKET", 2, << uid, i >>) ]

\* CMD_GET_CARD_CPZ_CTR, usb_cmd_parser.c:765-771
HandleGetCardCpzCtr(caller, p, n) ==
    /\ Return(caller, p,
              outputLUTEntriesForGivenUser(currentUserID, n)
                  \o << StatusByteMsg(p.cmd, PLUGIN_BYTE_OK) >>,
              << Call("getCurrentUserID", currentUserID),
                 Call("outputLUTEntriesForGivenUser", currentUserID) >>, TRUE)
    /\ UNCHANGED programVars
    /\ GhostIdle

\* the parameter bytes the EEPROM holds before the run
EepromParameter(param) == (7 * param + 5) % 256
LOCK_TIMEOUT_ENABLE_PARAM == 1
\* the byte of parameter `param` when `written` are the parameters set so far
StoredParameter(written, param) ==
    IF param \in DOMAIN written THEN written[param] ELSE EepromParameter(param)
\* CMD_GET_MOOLTIPASS_PARM, usb_cmd_parser.c:937-941
getMooltipassParameterInEepromOk(param) == PLUGIN_BYTE_OK
getMooltipassParameterInEeprom(param) == StoredParameter(mpParams, param)
HandleGetMooltipassParm(caller, p, g) ==
    /\ Trailer(caller, p, getMooltipassParameterInEeprom(Byte(p, 0, g)),
               << Call("getMooltipassParameterInEeprom", Byte(p, 0, g)) >>)
    /\ UNCHANGED programVars
    /\ GhostIdle

\* CMD_SET_DATE, usb_cmd_parser.c:1172-1178
HandleSetDate(caller, p, g) ==
    /\ Trailer(caller, p, PLUGIN_BYTE_OK, << Call("setCurrentDate", Word(p, 0, g)) >>)
    /\ UNCHANGED programVars
    /\ GhostIdle

(***************************************************************************)
(* EEPROM, bootloader password, device UID and media import.  The build    *)
(* modelled has USB_FEATURE_PLUGIN_COMMS and none of DEV_PLUGIN_COMMS,     *)
(* AVR_BOOTLOADER_PROGRAMMING, MINI_VERSION, MINI_PREPRODUCTION_SETUP and  *)
(* POST_KICKSTARTER_UPDATE_SETUP.                                          *)
(***************************************************************************)
\* bytes of the UID request key and of the device UID
UID_REQUEST_KEY_SIZE == 2
UID_SIZE == 1
\* an EEPROM byte that was never written
EEP_ERASED == 255
UID_REQUEST_KEY_OK_KEY == 187
BOOTLOADER_PWDOK_KEY == 171
BOOTLOADER_BOOTKEY == 45063
CORRECT_BOOTKEY == 57005
\* the C constant FALSE as an EEPROM byte
FALSE_BYTE == 0
ErasedBlock(n) == [ i \in 1..n |-> EEP_ERASED ]
ErasedWord == 65535

\* the first n bytes of msg->body.data
PayloadBytes(p, g, n) == [ i \in 1..n |-> Byte(p, i - 1, g) ]

\* memcmp(a, b, n) of the C library the firmware links: the difference of the
\* first pair of bytes that differ, 0 when there is none
RECURSIVE memcmpFrom(_, _, _)
memcmpFrom(a, b, i) ==
    IF i > Len(a) THEN 0
    ELSE IF a[i] # b[i] THEN a[i] - b[i]
    ELSE memcmpFrom(a, b, i + 1)
memcmp(a, b) == memcmpFrom(a, b, 1)

\* volatile uint8_t password_comparison_result = memcmp(...), usb_cmd_parser.c:87
PasswordComparisonFirstByte(stored, data) == (stored[1] - data[1]) % 256
PasswordComparisonResult(stored, data) == memcmp(stored, data) % 256

TIMER_CREDENTIALS == "TIMER_CREDENTIALS"
TIMER_RUNNING == "TIMER_RUNNING"
TIMER_EXPIRED == "TIMER_EXPIRED"
\* polls of the credential timer that find it running, at most
MaxTimerPolls == 1

\* checkMooltipassPassword(data, addr, length) == TRUE, usb_cmd_parser.c:73-102
checkMooltipassPassword(data, stored) == PasswordComparisonResult(stored, data) = 0

\* the calls of one checkMooltipassPassword, usb_cmd_parser.c:78-93, when the
\* timer is found running `polls` times
PasswordCheckCallsNoWait(data, stored, addr, polls) ==
    << Call("eeprom_read_block", addr),
       Call("activateTimer", TIMER_CREDENTIALS),
       Call("memcmp", PasswordComparisonResult(stored, data)),
       Call("memset", 0) >>
PasswordCheckCalls(data, stored, addr, polls) ==
    << Call("eeprom_read_block", addr),
       Call("activateTimer", TIMER_CREDENTIALS),
       Call("memcmp", PasswordComparisonResult(stored, data)) >>
    \o [ i \in 1..polls |-> Call("hasTimerExpired", TIMER_RUNNING) ]
    \o << Call("hasTimerExpired", TIMER_EXPIRED),
          Call("memset", 0) >>

\* CMD_SET_UID, usb_cmd_parser.c:1182-1197
UidSettableAgain(p) == p.len = UID_REQUEST_KEY_SIZE + UID_SIZE
UidSettable(p) ==
    /\ p.len = UID_REQUEST_KEY_SIZE + UID_SIZE
    /\ eepUidRequestKeySet # UID_REQUEST_KEY_OK_KEY

HandleSetUid(caller, p, g) ==
    LET ok == UidSettable(p)
        rd == IF p.len = UID_REQUEST_KEY_SIZE + UID_SIZE
              THEN << Call("eeprom_read_byte", "EEP_UID_REQUEST_KEY_SET_ADDR") >> ELSE << >>
        wr == IF ok THEN << Call("eeprom_write_block", "EEP_UID_REQUEST_KEY_ADDR"),
                            Call("eeprom_write_byte", "EEP_UID_REQUEST_KEY_SET_ADDR") >>
              ELSE << >>
    IN  /\ Trailer(caller, p, IF ok THEN PLUGIN_BYTE_OK ELSE PLUGIN_BYTE_ERROR, rd \o wr)
        /\ eepUidBlock' =
              IF ok THEN PayloadBytes(p, g, UID_REQUEST_KEY_SIZE + UID_SIZE) ELSE eepUidBlock
        /\ eepUidRequestKeySet' = IF ok THEN UID_REQUEST_KEY_OK_KEY ELSE eepUidRequestKeySet
        /\ UNCHANGED << mgmtVars, flashVars, sessionVars, profileVars, contextVars, mediaVars,
                        eepBootPwdSet, eepBootPwd, eepBootkey, eepBackupBootkey, mpParams,
                        mp_timeout_enabled, cardZones >>
        /\ GhostIdle

StoredRequestKey == SubSeq(eepUidBlock, 1, UID_REQUEST_KEY_SIZE)
StoredUid == SubSeq(eepUidBlock, UID_REQUEST_KEY_SIZE + 1, UID_REQUEST_KEY_SIZE + UID_SIZE)

\* CMD_GET_UID, usb_cmd_parser.c:1201-1224
HandleGetUid(caller, p, g, polls) ==
    LET key == PayloadBytes(p, g, UID_REQUEST_KEY_SIZE)
        checked == /\ p.len = UID_REQUEST_KEY_SIZE
                   /\ eepUidRequestKeySet = UID_REQUEST_KEY_OK_KEY
        rd == IF p.len = UID_REQUEST_KEY_SIZE
              THEN << Call("eeprom_read_byte", "EEP_UID_REQUEST_KEY_SET_ADDR") >> ELSE << >>
        chk == IF checked
               THEN PasswordCheckCalls(key, StoredRequestKey, "EEP_UID_REQUEST_KEY_ADDR", polls)
               ELSE << >>
    IN  /\ IF checked /\ checkMooltipassPassword(key, StoredRequestKey)
           THEN Finish(caller, p, << Msg(p.cmd, UID_SIZE, StoredUid) >>,
                       rd \o chk \o << Call("eeprom_read_block", "EEP_UID_ADDR") >>)
           ELSE Trailer(caller, p, PLUGIN_BYTE_ERROR, rd \o chk)
        /\ UNCHANGED programVars
        /\ GhostIdle

\* CMD_SET_BOOTLOADER_PWD, usb_cmd_parser.c:1227-1241
BootPwdSettableAgain(p) == p.len = PACKET_EXPORT_SIZE
BootPwdSettable(p) ==
    /\ eepBootPwdSet # BOOTLOADER_PWDOK_KEY
    /\ p.len = PACKET_EXPORT_SIZE

HandleSetBootloaderPwd(caller, p, g) ==
    LET ok == BootPwdSettable(p)
        wr == IF ok THEN << Call("eeprom_write_block", "EEP_BOOT_PWD"),
                            Call("eeprom_write_word", "EEP_BACKUP_BOOTKEY_ADDR"),
                            Call("eeprom_write_byte", "EEP_BOOT_PWD_SET") >>
              ELSE << >>
    IN  /\ Trailer(caller, p, IF ok THEN PLUGIN_BYTE_OK ELSE PLUGIN_BYTE_ERROR,
                   << Call("eeprom_read_byte", "EEP_BOOT_PWD_SET") >> \o wr)
        /\ eepBootPwd' = IF ok THEN PayloadBytes(p, g, PACKET_EXPORT_SIZE) ELSE eepBootPwd
        /\ eepBackupBootkey' = IF ok THEN CORRECT_BOOTKEY ELSE eepBackupBootkey
        /\ eepBootPwdSet' = IF ok THEN BOOTLOADER_PWDOK_KEY ELSE eepBootPwdSet
        /\ UNCHANGED << mgmtVars, flashVars, sessionVars, profileVars, contextVars, mediaVars,
                        eepUidRequestKeySet, eepUidBlock, eepBootkey, mpParams,
                        mp_timeout_enabled, cardZones >>
        /\ GhostIdle

\* the calls of the guarded part of CMD_JUMP_TO_BOOTLOADER and of
\* CMD_IMPORT_MEDIA_START: the tests are made left to right and stop at the
\* first that decides, usb_cmd_parser.c:848 and :1268
BootPwdSet == eepBootPwdSet = BOOTLOADER_PWDOK_KEY
BootPwdMatches(p, g) ==
    checkMooltipassPassword(PayloadBytes(p, g, PACKET_EXPORT_SIZE), eepBootPwd)
ConfirmThenCheck(p, g, conf, polls) ==
    << Call("guiAskForConfirmation", conf) >>
    \o (IF conf = RETURN_OK
        THEN PasswordCheckCalls(PayloadBytes(p, g, PACKET_EXPORT_SIZE), eepBootPwd,
                                "EEP_BOOT_PWD", polls)
        ELSE << >>)

\* the jump is allowed, usb_cmd_parser.c:1268
JumpAllowedNoConfirm(p, g, conf) ==
    BootPwdSet /\ p.len = PACKET_EXPORT_SIZE /\ BootPwdMatches(p, g)
JumpAllowed(p, g, conf) ==
    BootPwdSet /\ p.len = PACKET_EXPORT_SIZE /\ conf = RETURN_OK /\ BootPwdMatches(p, g)

\* CMD_JUMP_TO_BOOTLOADER, usb_cmd_parser.c:1245-1288.  An allowed jump writes the
\* boot keys, clears the password flag and spins until the watchdog resets the
\* device: the RAM is initialised again, the EEPROM and the flash persist.  A
\* refused jump leaves the case without a break and returns at the default
\* label, usb_cmd_parser.c:1406.
HandleJumpToBootloader(caller, p, g, conf, polls) ==
    LET asked == BootPwdSet /\ p.len = PACKET_EXPORT_SIZE
        jump == JumpAllowed(p, g, conf)
        cs == << Call("userViewDelay", 0), Call("eeprom_read_byte", "EEP_BOOT_PWD_SET") >>
              \o (IF asked THEN ConfirmThenCheck(p, g, conf, polls) ELSE << >>)
              \o (IF jump
                  THEN << Call("eeprom_write_word", "EEP_BOOTKEY_ADDR"),
                          Call("eeprom_write_word", "EEP_BACKUP_BOOTKEY_ADDR"),
                          Call("eeprom_write_byte", "EEP_BOOT_PWD_SET"),
                          Call("wdt_enable_2s", 0) >>
                  ELSE guiGetBackToCurrentScreen)
    IN  /\ Finish(caller, p, << >>, cs)
        /\ GhostIdle
        /\ IF jump
           THEN /\ eepBootkey' = BOOTLOADER_BOOTKEY
                /\ eepBackupBootkey' = BOOTLOADER_BOOTKEY
                /\ eepBootPwdSet' = FALSE_BYTE
                /\ memoryManagementModeApproved' = FALSE
                /\ currentNodeWritten' = NODE_ADDR_NULL
                /\ mediaFlashImportApproved' = FALSE
                /\ mediaFlashImportPage' = 0
                /\ mediaFlashImportOffset' = 0
                /\ cardAbsent' = TRUE
                /\ cardUnlocked' = FALSE
                /\ cardUser' = NO_USER
                /\ currentUserID' = NO_USER
                /\ currentScreen' = SCREEN_DEFAULT_NINSERTED
                /\ currentContext' = NoContext
                /\ UNCHANGED << flashVars, profileVars, services, eepUidRequestKeySet,
                                eepUidBlock, eepBootPwd, mpParams, mp_timeout_enabled,
                                cardZones >>
           ELSE UNCHANGED programVars

GRAPHIC_ZONE_PAGE_START == 0
GRAPHIC_ZONE_PAGE_END == 1

\* the import is allowed, usb_cmd_parser.c:839 and :848
ImportAllowedPwdOnly(p, g, conf) ==
    /\ p.len = PACKET_EXPORT_SIZE
    /\ BootPwdSet /\ conf = RETURN_OK /\ BootPwdMatches(p, g)
ImportAllowed(p, g, conf) ==
    /\ p.len = PACKET_EXPORT_SIZE
    /\ \/ ~BootPwdSet
       \/ conf = RETURN_OK /\ BootPwdMatches(p, g)

\* CMD_IMPORT_MEDIA_START, usb_cmd_parser.c:825-858
HandleImportMediaStart(caller, p, g, conf, polls) ==
    LET sized == p.len = PACKET_EXPORT_SIZE
        ok == ImportAllowed(p, g, conf)
        cs == << Call("userViewDelay", 0) >>
              \o (IF sized THEN << Call("eeprom_read_byte", "EEP_BOOT_PWD_SET") >> ELSE << >>)
              \o (IF sized /\ BootPwdSet THEN ConfirmThenCheck(p, g, conf, polls) ELSE << >>)
              \o (IF sized THEN guiGetBackToCurrentScreen ELSE << >>)
    IN  /\ Trailer(caller, p, IF ok THEN PLUGIN_BYTE_OK ELSE PLUGIN_BYTE_ERROR, cs)
        /\ mediaFlashImportPage' = GRAPHIC_ZONE_PAGE_START
        /\ mediaFlashImportOffset' = 0
        /\ mediaFlashImportApproved' = IF ok THEN TRUE ELSE mediaFlashImportApproved
        /\ UNCHANGED << mgmtVars, flashVars, sessionVars, profileVars, contextVars, eepromVars,
                        cardZones >>
        /\ GhostIdle

\* a CMD_IMPORT_MEDIA packet is refused, usb_cmd_parser.c:864
ImportRefusedNoPageTest(p) ==
    \/ mediaFlashImportApproved = FALSE
    \/ mediaFlashImportOffset + p.len > BYTES_PER_PAGE
ImportRefused(p) ==
    \/ mediaFlashImportApproved = FALSE
    \/ mediaFlashImportPage >= GRAPHIC_ZONE_PAGE_END
    \/ mediaFlashImportOffset + p.len > BYTES_PER_PAGE

\* CMD_IMPORT_MEDIA, usb_cmd_parser.c:861-884
HandleImportMedia(caller, p, g) ==
    LET refused == ImportRefused(p)
        staged == WriteAt(flashBuf, mediaFlashImportOffset, PayloadBytes(p, g, p.len))
        filled == mediaFlashImportOffset + p.len = BYTES_PER_PAGE
    IN  IF refused
        THEN /\ Trailer(caller, p, PLUGIN_BYTE_ERROR, << >>)
             /\ mediaFlashImportApproved' = FALSE
             /\ UNCHANGED << mgmtVars, flashVars, sessionVars, profileVars, contextVars,
                             mediaFlashImportPage, mediaFlashImportOffset, eepromVars,
                             cardZones >>
             /\ GhostIdle
        ELSE /\ Trailer(caller, p, PLUGIN_BYTE_OK,
                        << Call("flashWriteBuffer", mediaFlashImportOffset) >>
                        \o (IF filled
                            THEN << Call("flashWriteBufferToPage", mediaFlashImportPage) >>
                            ELSE << >>))
             /\ flashBuf' = staged
             /\ flash' = IF filled THEN [ flash EXCEPT ![mediaFlashImportPage] = staged ]
                         ELSE flash
             /\ mediaFlashImportOffset' = IF filled THEN 0 ELSE mediaFlashImportOffset + p.len
             /\ mediaFlashImportPage' =
                   IF filled THEN mediaFlashImportPage + 1 ELSE mediaFlashImportPage
             /\ UNCHANGED << mgmtVars, sessionVars, profileVars, contextVars,
                             mediaFlashImportApproved, eepromVars, cardZones >>
             /\ GhostIdle

\* CMD_IMPORT_MEDIA_END, usb_cmd_parser.c:887-910
HandleImportMediaEnd(caller, p) ==
    LET flush == mediaFlashImportApproved = TRUE /\ mediaFlashImportOffset # 0
    IN  /\ Trailer(caller, p, PLUGIN_BYTE_OK,
                   IF flush THEN << Call("flashWriteBufferToPage", mediaFlashImportPage) >>
                   ELSE << >>)
        /\ flash' = IF flush THEN [ flash EXCEPT ![mediaFlashImportPage] = flashBuf ]
                    ELSE flash
        /\ mediaFlashImportApproved' = FALSE
        /\ UNCHANGED << mgmtVars, flashBuf, sessionVars, profileVars, contextVars,
                        mediaFlashImportPage, mediaFlashImportOffset, eepromVars, cardZones >>
        /\ GhostIdle

\* the cached lock-timeout flag after the parameter write, usb_cmd_parser.c:919
TimeoutCacheKept(written) == mp_timeout_enabled
TimeoutCache(written) == StoredParameter(written, LOCK_TIMEOUT_ENABLE_PARAM)

\* CMD_SET_MOOLTIPASS_PARM, usb_cmd_parser.c:913-934
HandleSetMooltipassParm(caller, p, g) ==
    LET param == Byte(p, 0, g)
        val == Byte(p, 1, g)
        written == [ k \in DOMAIN mpParams \cup { param } |->
                       IF k = param THEN val ELSE mpParams[k] ]
    IN  IF p.len = 2
        THEN /\ Trailer(caller, p, PLUGIN_BYTE_OK,
                        << Call("setMooltipassParameterInEeprom", << param, val >>),
                           Call("getMooltipassParameterInEeprom", LOCK_TIMEOUT_ENABLE_PARAM) >>)
             /\ mpParams' = written
             /\ mp_timeout_enabled' = TimeoutCache(written)
             /\ UNCHANGED << mgmtVars, flashVars, sessionVars, profileVars, contextVars,
                             mediaVars, eepUidRequestKeySet, eepUidBlock, eepBootPwdSet,
                             eepBootPwd, eepBootkey, eepBackupBootkey, cardZones >>
             /\ GhostIdle
        ELSE /\ Trailer(caller, p, PLUGIN_BYTE_ERROR, << >>)
             /\ UNCHANGED programVars
             /\ GhostIdle

RETURN_MOOLTIPASS_USER == "RETURN_MOOLTIPASS_USER"
RETURN_MOOLTIPASS_OTHER == "RETURN_MOOLTIPASS_OTHER"
RETURN_VCARD_OK == "RETURN_VCARD_OK"
RETURN_VCARD_NOK == "RETURN_VCARD_NOK"
\* cardDetectedRoutine(): the inserted card belongs to a user of this device
cardDetectedRoutine ==
    IF ~cardAbsent /\ cardUser \in Users THEN RETURN_MOOLTIPASS_USER
    ELSE RETURN_MOOLTIPASS_OTHER

\* the PIN of CMD_UNLOCK_WITH_PIN is given to the card, usb_cmd_parser.c:996
PinSubmittedNoConfirm(p, conf) ==
    /\ p.len = 2
    /\ currentScreen = SCREEN_DEFAULT_INSERTED_LCK
    /\ cardDetectedRoutine = RETURN_MOOLTIPASS_USER
PinSubmitted(p, conf) ==
    /\ p.len = 2
    /\ currentScreen = SCREEN_DEFAULT_INSERTED_LCK
    /\ cardDetectedRoutine = RETURN_MOOLTIPASS_USER
    /\ conf = RETURN_OK

\* CMD_UNLOCK_WITH_PIN, usb_cmd_parser.c:990-1010; `vcard` is the card's answer
\* to the PIN
HandleUnlockWithPin(caller, p, g, conf, vcard) ==
    LET screened == p.len = 2 /\ currentScreen = SCREEN_DEFAULT_INSERTED_LCK
        detected == screened /\ cardDetectedRoutine = RETURN_MOOLTIPASS_USER
        submitted == PinSubmitted(p, conf)
        ok == submitted /\ vcard = RETURN_VCARD_OK
        cs == (IF p.len = 2 THEN << Call("getCurrentScreen", 0) >> ELSE << >>)
              \o (IF screened THEN << Call("cardDetectedRoutine", cardDetectedRoutine) >>
                  ELSE << >>)
              \o (IF detected THEN << Call("guiAskForConfirmation", conf) >> ELSE << >>)
              \o (IF submitted
                  THEN << Call("validCardDetectedFunction", << Word(p, 0, g), vcard >>) >>
                  ELSE << >>)
              \o (IF ok THEN << Call("guiSetCurrentScreen", 0) >> ELSE << >>)
              \o guiGetBackToCurrentScreen
    IN  /\ Trailer(caller, p, IF ok THEN PLUGIN_BYTE_OK ELSE PLUGIN_BYTE_ERROR, cs)
        /\ cardUnlocked' = IF ok THEN TRUE ELSE cardUnlocked
        /\ currentUserID' = IF ok THEN cardUser ELSE currentUserID
        /\ currentScreen' = IF ok THEN SCREEN_DEFAULT_INSERTED_NLCK ELSE currentScreen
        /\ UNCHANGED << deviceVars, cardAbsent, cardUser, mgmtVars, flashVars, profileVars,
                        contextVars >>
        /\ GhostIdle

\* CMD_READ_CARD_LOGIN, usb_cmd_parser.c:1050-1064
HandleReadCardLogin(caller, p) ==
    /\ IF cardUnlocked
       THEN Finish(caller, p,
                   << Msg(p.cmd, SMARTCARD_MTP_LOGIN_SIZE, cardZones[cardUser].login) >>,
                   << Call("getSmartCardInsertedUnlocked", 1),
                      Call("readMooltipassWebsiteLogin", 0) >>)
       ELSE Trailer(caller, p, PLUGIN_BYTE_ERROR,
                    << Call("getSmartCardInsertedUnlocked", 0) >>)
    /\ UNCHANGED programVars
    /\ GhostIdle

\* the card password is read and sent, usb_cmd_parser.c:1069-1071
CardPassReleasedNoConfirm(conf) == cardUnlocked
CardPassReleased(conf) == cardUnlocked /\ conf = RETURN_OK

\* CMD_READ_CARD_PASS, usb_cmd_parser.c:1067-1090
HandleReadCardPass(caller, p, conf) ==
    LET cs == << Call("getSmartCardInsertedUnlocked", BoolVal(cardUnlocked)) >>
              \o (IF cardUnlocked THEN << Call("guiAskForConfirmation", conf) >> ELSE << >>)
              \o (IF CardPassReleased(conf)
                  THEN << Call("readMooltipassWebsitePassword", 0) >> ELSE << >>)
              \o (IF cardUnlocked THEN guiGetBackToCurrentScreen ELSE << >>)
    IN  /\ IF CardPassReleased(conf)
           THEN Finish(caller, p,
                       << Msg(p.cmd, SMARTCARD_MTP_PASS_SIZE, cardZones[cardUser].pass) >>, cs)
           ELSE Trailer(caller, p, PLUGIN_BYTE_ERROR, cs)
        /\ UNCHANGED programVars
        /\ GhostIdle

SCREEN_DEFAULT_INSERTED_INVALID == "SCREEN_DEFAULT_INSERTED_INVALID"

\* the card is erased, usb_cmd_parser.c:968 and :972
CardErasedAnyScreen(unl) == unl = RETURN_OK
CardErased(unl) == currentScreen = SCREEN_DEFAULT_INSERTED_UNKNOWN /\ unl = RETURN_OK

\* CMD_RESET_CARD, usb_cmd_parser.c:966-990; `unl` is what
\* guiCardUnlockingProcess() returns
HandleResetCard(caller, p, unl) ==
    LET unknown == currentScreen = SCREEN_DEFAULT_INSERTED_UNKNOWN
        ok == CardErased(unl)
        cs == << Call("getCurrentScreen", 0) >>
              \o (IF unknown
                  THEN << Call("activityDetectedRoutine", 0),
                          Call("guiCardUnlockingProcess", unl) >>
                  ELSE << >>)
              \o (IF ok THEN << Call("eraseSmartCard", 0), Call("guiSetCurrentScreen", 0) >>
                  ELSE << >>)
              \o (IF unknown THEN guiGetBackToCurrentScreen ELSE << >>)
    IN  /\ Trailer(caller, p, IF ok THEN PLUGIN_BYTE_OK ELSE PLUGIN_BYTE_ERROR, cs)
        /\ cardZones' = IF ok THEN [ cardZones EXCEPT ![cardUser] = NoCardText ] ELSE cardZones
        /\ currentScreen' = IF ok THEN SCREEN_DEFAULT_INSERTED_INVALID ELSE currentScreen
        /\ UNCHANGED << mgmtVars, flashVars, cardAbsent, cardUnlocked, cardUser, currentUserID,
                        profileVars, contextVars, mediaVars, eepromVars >>
        /\ GhostIdle

\* bytes of a card's code protected zone and of the AES counter of a user
SMARTCARD_CPZ_LENGTH == 2
AES256_CTR_LENGTH == 1
\* readCodeProtectedZone(): the code protected zone of the inserted card
readCodeProtectedZone == [ i \in 1..SMARTCARD_CPZ_LENGTH |-> 40 + cardUser + i ]

\* the card is added and the session unlocked, usb_cmd_parser.c:1016 and :1026
CardAddedAnyCpz(p, g, unl, added) ==
    /\ p.len = SMARTCARD_CPZ_LENGTH + AES256_CTR_LENGTH
    /\ currentScreen = SCREEN_DEFAULT_INSERTED_UNKNOWN
    /\ unl = RETURN_OK
    /\ added = RETURN_OK
CardAdded(p, g, unl, added) ==
    /\ p.len = SMARTCARD_CPZ_LENGTH + AES256_CTR_LENGTH
    /\ currentScreen = SCREEN_DEFAULT_INSERTED_UNKNOWN
    /\ memcmp(readCodeProtectedZone, PayloadBytes(p, g, SMARTCARD_CPZ_LENGTH)) = 0
    /\ unl = RETURN_OK
    /\ added = RETURN_OK

\* CMD_ADD_UNKNOWN_CARD, usb_cmd_parser.c:1013-1047; `unl` is what
\* guiCardUnlockingProcess() returns, `added` and `uid` what
\* addNewUserForExistingCard() returns and stores in new_user_id
HandleAddUnknownCard(caller, p, g, unl, added, uid) ==
    LET sized == p.len = SMARTCARD_CPZ_LENGTH + AES256_CTR_LENGTH
        entered == sized /\ currentScreen = SCREEN_DEFAULT_INSERTED_UNKNOWN
        same == memcmp(readCodeProtectedZone, PayloadBytes(p, g, SMARTCARD_CPZ_LENGTH)) = 0
        unlocked == entered /\ same /\ unl = RETURN_OK
        ok == CardAdded(p, g, unl, added)
        cs == (IF sized THEN << Call("getCurrentScreen", 0) >> ELSE << >>)
              \o (IF entered
                  THEN << Call("readCodeProtectedZone", 0),
                          Call("activityDetectedRoutine", 0),
                          Call("memcmp", BoolVal(~same)) >>
                  ELSE << >>)
              \o (IF entered /\ same THEN << Call("guiCardUnlockingProcess", unl) >>
                  ELSE << >>)
              \o (IF unlocked THEN << Call("addNewUserForExistingCard", added) >> ELSE << >>)
              \o (IF ok
                  THEN << Call("readAES256BitsKey", 0),
                          Call("initUserFlashContext", uid),
                          Call("initEncryptionHandling", 0),
                          Call("setSmartCardInsertedUnlocked", 0),
                          Call("guiSetCurrentScreen", 0) >>
                  ELSE << >>)
              \o (IF entered THEN guiGetBackToCurrentScreen ELSE << >>)
    IN  /\ Trailer(caller, p, IF ok THEN PLUGIN_BYTE_OK ELSE PLUGIN_BYTE_ERROR, cs)
        /\ cardUnlocked' = IF ok THEN TRUE ELSE cardUnlocked
        /\ cardUser' = IF ok THEN uid ELSE cardUser
        /\ currentUserID' = IF ok THEN uid ELSE currentUserID
        /\ currentScreen' = IF ok THEN SCREEN_DEFAULT_INSERTED_NLCK ELSE currentScreen
        /\ cardZones' = IF ok THEN [ cardZones EXCEPT ![uid] = cardZones[cardUser] ]
                        ELSE cardZones
        /\ UNCHANGED << mgmtVars, flashVars, cardAbsent, profileVars, contextVars, mediaVars,
                        eepromVars >>
        /\ GhostIdle

\* bytes of the payload of a data block
DATA_NODE_BLOCK_SIZ == 2
\* addDataForDataContext(data, last_part_flag) == RETURN_OK: a data context is
\* selected on an unlocked card
DataAppendable ==
    /\ cardUnlocked
    /\ currentContext # NoContext
    /\ currentContext[2] = SERVICE_DATA_TYPE
BlocksOf(key) == IF key \in DOMAIN dataBlocks THEN dataBlocks[key] ELSE << >>

\* CMD_WRITE_32B_IN_DN, usb_cmd_parser.c:473-486: addDataForDataContext is the
\* left operand of the && of line 476, the length test the right one
HandleWrite32BInDn(caller, p, g) ==
    LET block == [ i \in 1..DATA_NODE_BLOCK_SIZ |-> Byte(p, i, g) ]
        added == DataAppendable
        ok == added /\ p.len = 1 + DATA_NODE_BLOCK_SIZ
    IN  /\ Trailer(caller, p, IF ok THEN PLUGIN_BYTE_OK ELSE PLUGIN_BYTE_ERROR,
                   << Call("addDataForDataContext",
                           << block, Byte(p, 0, g), BoolVal(added) >>) >>)
        /\ dataBlocks' =
              IF added
              THEN [ k \in DOMAIN dataBlocks \cup { currentContext } |->
                       IF k = currentContext THEN Append(BlocksOf(k), block)
                       ELSE dataBlocks[k] ]
              ELSE dataBlocks
        /\ UNCHANGED << deviceVars, mgmtVars, flashVars, sessionVars, contextVars, favorites,
                        startingParent, dataStartingParent, profileCtr >>
        /\ GhostIdle

(***************************************************************************)
(* usbProcessIncoming                                                      *)
(***************************************************************************)
\* the values a byte read past the incoming buffer can have
StackBytes == { 0, 255 }
Answers == { RETURN_OK, RETURN_NOK }

\* the switch, usb_cmd_parser.c:259-1407
CommandSwitch(caller, p) ==
    CASE p.cmd = "CMD_CANCEL_REQUEST" -> HandleSilent(caller, p)
      [] p.cmd = "CMD_PING" -> \E g \in StackBytes : HandlePing(caller, p, g)
      [] p.cmd = "CMD_VERSION" -> HandleVersion(caller, p)
      [] p.cmd = "CMD_START_MEMORYMGMT" ->
            \E conf \in Answers, reauth \in Answers :
                HandleStartMemoryMgmt(caller, p, conf, reauth)
      [] p.cmd = "CMD_GET_STARTING_PARENT" ->
            HandleGetAddress(caller, p, startingParent[currentUserID],
                             "getStartingParentAddress")
      [] p.cmd = "CMD_GET_DN_START_PARENT" ->
            HandleGetAddress(caller, p, dataStartingParent[currentUserID],
                             "getStartingDataParentAddress")
      [] p.cmd = "CMD_END_MEMORYMGMT" -> HandleEndMemoryMgmt(caller, p)
      [] p.cmd = "CMD_READ_FLASH_NODE" ->
            \E g \in StackBytes : HandleReadFlashNode(caller, p, g)
      [] p.cmd = "CMD_SET_FAVORITE" -> \E g \in StackBytes : HandleSetFavorite(caller, p, g)
      [] p.cmd = "CMD_GET_FAVORITE" -> \E g \in StackBytes : HandleGetFavorite(caller, p, g)
      [] p.cmd = "CMD_SET_STARTING_PARENT" ->
            \E g \in StackBytes : HandleSetStartingParent(caller, p, g)
      [] p.cmd = "CMD_SET_DN_START_PARENT" ->
            \E g \in StackBytes : HandleSetDnStartParent(caller, p, g)
      [] p.cmd = "CMD_SET_CTRVALUE" -> \E g \in StackBytes : HandleSetCtrValue(caller, p, g)
      [] p.cmd = "CMD_GET_CTRVALUE" -> HandleGetCtrValue(caller, p)
      [] p.cmd = "CMD_WRITE_FLASH_NODE" ->
            \E g \in StackBytes : HandleWriteFlashNode(caller, p, g)
      [] p.cmd \in { "CMD_CONTEXT", "CMD_SET_DATA_SERVICE" } -> HandleContext(caller, p)
      [] p.cmd \in { "CMD_ADD_CONTEXT", "CMD_ADD_DATA_SERVICE" } -> HandleAddContext(caller, p)
      [] p.cmd = "CMD_GET_LOGIN" -> HandleGetLogin(caller, p)
      [] p.cmd = "CMD_SET_LOGIN" -> HandleSetLogin(caller, p)
      [] p.cmd = "CMD_SET_PASSWORD" -> HandleSetPassword(caller, p)
      [] p.cmd = "CMD_CHECK_PASSWORD" ->
            \E blocked \in BOOLEAN : HandleCheckPassword(caller, p, blocked)
      [] p.cmd \in { "CMD_SET_CARD_LOGIN", "CMD_SET_CARD_PASS" } ->
            \E conf \in Answers : HandleSetCardText(caller, p, conf)
      [] p.cmd = "CMD_GET_CARD_CPZ_CTR" ->
            \E n \in 0..MaxCardEntries : HandleGetCardCpzCtr(caller, p, n)
      [] p.cmd = "CMD_GET_MOOLTIPASS_PARM" ->
            \E g \in StackBytes : HandleGetMooltipassParm(caller, p, g)
      [] p.cmd = "CMD_SET_DATE" -> \E g \in StackBytes : HandleSetDate(caller, p, g)
      [] p.cmd = "CMD_SET_UID" -> \E g \in StackBytes : HandleSetUid(caller, p, g)
      [] p.cmd = "CMD_GET_UID" ->
            \E g \in StackBytes, polls \in 0..MaxTimerPolls : HandleGetUid(caller, p, g, polls)
      [] p.cmd = "CMD_SET_BOOTLOADER_PWD" ->
            \E g \in StackBytes : HandleSetBootloaderPwd(caller, p, g)
      [] p.cmd = "CMD_JUMP_TO_BOOTLOADER" ->
            \E g \in StackBytes, conf \in Answers, polls \in 0..MaxTimerPolls :
                HandleJumpToBootloader(caller, p, g, conf, polls)
      [] p.cmd = "CMD_IMPORT_MEDIA_START" ->
            \E g \in StackBytes, conf \in Answers, polls \in 0..MaxTimerPolls :
                HandleImportMediaStart(caller, p, g, conf, polls)
      [] p.cmd = "CMD_IMPORT_MEDIA" -> \E g \in StackBytes : HandleImportMedia(caller, p, g)
      [] p.cmd = "CMD_IMPORT_MEDIA_END" -> HandleImportMediaEnd(caller, p)
      [] p.cmd = "CMD_SET_MOOLTIPASS_PARM" ->
            \E g \in StackBytes : HandleSetMooltipassParm(caller, p, g)
      [] p.cmd = "CMD_UNLOCK_WITH_PIN" ->
            \E g \in StackBytes, conf \in Answers,
               vcard \in { RETURN_VCARD_OK, RETURN_VCARD_NOK } :
                HandleUnlockWithPin(caller, p, g, conf, vcard)
      [] p.cmd = "CMD_READ_CARD_LOGIN" -> HandleReadCardLogin(caller, p)
      [] p.cmd = "CMD_READ_CARD_PASS" -> \E conf \in Answers : HandleReadCardPass(caller, p, conf)
      [] p.cmd = "CMD_RESET_CARD" -> \E unl \in Answers : HandleResetCard(caller, p, unl)
      [] p.cmd = "CMD_ADD_UNKNOWN_CARD" ->
            \E g \in StackBytes, unl \in Answers, added \in Answers, uid \in Users :
                HandleAddUnknownCard(caller, p, g, unl, added, uid)

      [] p.cmd = "CMD_WRITE_32B_IN_DN" ->
            \E g \in StackBytes : HandleWrite32BInDn(caller, p, g)

      [] OTHER -> HandleSilent(caller, p)

\* usbProcessIncoming(caller_id) with packet p received, usb_cmd_parser.c:154-1411
usbProcessIncoming(caller, p) ==
    IF IsStatusRequest(caller, p.cmd) THEN StatusReply(caller, p)
    ELSE IF \E g \in StackBytes : TextFieldRejected(p, g) THEN ErrorReply(caller, p)
    ELSE IF PrivilegeRejected(p.cmd) THEN ErrorReply(caller, p)
    ELSE CommandSwitch(caller, p)

(***************************************************************************)
(* The packets of the model                                                *)
(***************************************************************************)
Pkt(cmd, len, data) == [ cmd |-> cmd, len |-> len, data |-> data ]

\* commands whose handler the switch of the model has (or that have none)
SwitchCmds ==
    { "CMD_CANCEL_REQUEST", "CMD_PING", "CMD_VERSION", "CMD_START_MEMORYMGMT",
      "CMD_GET_STARTING_PARENT", "CMD_GET_DN_START_PARENT", "CMD_END_MEMORYMGMT",
      "CMD_READ_FLASH_NODE", "CMD_SET_FAVORITE", "CMD_GET_FAVORITE",
      "CMD_SET_STARTING_PARENT", "CMD_SET_DN_START_PARENT", "CMD_SET_CTRVALUE",
      "CMD_GET_CTRVALUE", "CMD_WRITE_FLASH_NODE", "CMD_CARD_CPZ_CTR_PACKET",
      "CMD_PLEASE_RETRY", "CMD_MOOLTIPASS_STATUS", "CMD_GET_LOGIN", "CMD_GET_CARD_CPZ_CTR",
      "CMD_GET_MOOLTIPASS_PARM", "CMD_SET_DATE", "CMD_SET_UID", "CMD_GET_UID",
      "CMD_SET_BOOTLOADER_PWD", "CMD_JUMP_TO_BOOTLOADER", "CMD_IMPORT_MEDIA_START",
      "CMD_IMPORT_MEDIA", "CMD_IMPORT_MEDIA_END", "CMD_SET_MOOLTIPASS_PARM",
      "CMD_UNLOCK_WITH_PIN", "CMD_READ_CARD_LOGIN", "CMD_READ_CARD_PASS",
      "CMD_RESET_CARD", "CMD_ADD_UNKNOWN_CARD", "CMD_WRITE_32B_IN_DN" } \cup TextFieldCmds

\* the packet stops before the switch, or the switch of the model handles it
PathModelled(caller, p) ==
    \/ IsStatusRequest(caller, p.cmd)
    \/ \E g \in StackBytes : TextFieldRejected(p, g)
    \/ PrivilegeRejected(p.cmd)
    \/ p.cmd \in SwitchCmds

\* PIN entry runs while a card is inserted and not yet unlocked
CallerPossible(caller) ==
    caller = USB_CALLER_PIN => (~cardAbsent /\ ~cardUnlocked /\ cardUser \in Users)

\* payload variants a host sends
Patterns == { 1 }
\* byte `pos` of a node as the host sends it under pattern v; byte 1 is the high
\* byte of the flags, sent with no user in its user-id field
PayloadByte(v, pos) == IF pos = 1 THEN UID_SPAN * v + NO_USER ELSE 10 * v + pos

ChunkLen(sub) ==
    IF sub > LastSubIndex THEN 0
    ELSE IF NODE_SIZE - sub * WritePacketCapacity < WritePacketCapacity
         THEN NODE_SIZE - sub * WritePacketCapacity
         ELSE WritePacketCapacity

WritePkt(addr, sub, len, v) ==
    Pkt("CMD_WRITE_FLASH_NODE", len,
        WordBytes(addr) \o << sub >>
        \o [ i \in 1..(IF len - 3 < ChunkLen(sub) THEN (IF len < 3 THEN 0 ELSE len - 3)
                       ELSE ChunkLen(sub)) |->
                PayloadByte(v, sub * WritePacketCapacity + i - 1) ])

\* the lengths tried for a write packet of sub-index `sub`: too short to hold
\* the address and sub-index, the natural chunk, and more than a node
WriteLens(sub) ==
    IF sub = 0 THEN { 2, 3 + ChunkLen(0), NODE_SIZE + 4 } ELSE { 3 + ChunkLen(sub) }

WriteAddrs == { NODE_ADDR_NULL, NodeAddress(1, 0), NodeAddress(1, 1), NodeAddress(2, 0) }

WritePackets ==
    UNION { { WritePkt(addr, sub, len, v) : len \in WriteLens(sub) } :
            addr \in WriteAddrs, sub \in 0..(LastSubIndex + 1), v \in Patterns }

SimplePackets ==
    { Pkt(cmd, 0, << >>) :
        cmd \in { "CMD_CANCEL_REQUEST", "CMD_PING", "CMD_VERSION", "CMD_MOOLTIPASS_STATUS",
                  "CMD_START_MEMORYMGMT", "CMD_END_MEMORYMGMT", "CMD_GET_STARTING_PARENT",
                  "CMD_GET_DN_START_PARENT", "CMD_GET_CTRVALUE", "CMD_GET_FREE_SLOTS_ADDR",
                  "CMD_ADD_CARD_CPZ_CTR", "CMD_GET_CARD_CPZ_CTR", "CMD_CARD_CPZ_CTR_PACKET",
                  "CMD_PLEASE_RETRY", "CMD_CONTEXT", "CMD_SET_LOGIN", "CMD_SET_CARD_PASS",
                  "CMD_GET_LOGIN", "CMD_SET_DATE" } }

ReadPackets ==
    { Pkt("CMD_READ_FLASH_NODE", len, WordBytes(addr)) :
        len \in { 1, 2 }, addr \in { NODE_ADDR_NULL, NodeAddress(1, 0), NodeAddress(1, 1) } }

ProfilePackets ==
    { Pkt(cmd, len, WordBytes(NodeAddress(1, 0))) :
        cmd \in { "CMD_SET_STARTING_PARENT", "CMD_SET_DN_START_PARENT" }, len \in { 1, 2 } }
    \cup { Pkt("CMD_SET_FAVORITE", len,
               << slot >> \o WordBytes(NodeAddress(1, 0)) \o WordBytes(NodeAddress(1, 1))) :
            len \in { 4, 5 }, slot \in { 0, NumFavorites } }
    \cup { Pkt("CMD_GET_FAVORITE", len, << slot >>) :
            len \in { 1, 2 }, slot \in 0..NumFavorites }
    \cup { Pkt("CMD_SET_CTRVALUE", len, << 1, 2, 3 >>) : len \in { 2, USER_CTR_SIZE } }

\* the packets of the dispatcher specification: every command, few write packets
Packets ==
    SimplePackets \cup ReadPackets \cup ProfilePackets
    \cup { WritePkt(NodeAddress(1, 1), 0, len, 1) : len \in { 2, 3 + ChunkLen(0) } }

\* a text of n letters without its null byte
Letters(n) == [ i \in 1..n |-> 97 ]
\* "A", "a" and "Ab" with their null bytes
UpperName == << 65, 0 >>
LowerName == << 97, 0 >>
MixedLogin == << 65, 98, 0 >>

\* text fields the checks reject: no length, a length that is not the string's,
\* a string longer than the field, a string without a null byte
BadTextPackets ==
    { Pkt(cmd, 0, << >>) : cmd \in { "CMD_ADD_CONTEXT", "CMD_SET_LOGIN" } }
    \cup { Pkt(cmd, 3, LowerName) : cmd \in { "CMD_CONTEXT", "CMD_SET_CARD_PASS" } }
    \cup { Pkt(cmd, MaxTextSize(cmd) + 1, Letters(MaxTextSize(cmd)) \o << 0 >>) :
            cmd \in { "CMD_ADD_DATA_SERVICE", "CMD_SET_PASSWORD" } }
    \cup { Pkt("CMD_CHECK_PASSWORD", 2, Letters(PACKET_EXPORT_SIZE)) }

\* the packets of the text-field specification
TextPackets ==
    { Pkt(cmd, 2, name) : cmd \in { "CMD_CONTEXT", "CMD_ADD_CONTEXT" },
                          name \in { UpperName, LowerName } }
    \cup { Pkt(cmd, 2, UpperName) : cmd \in { "CMD_SET_DATA_SERVICE", "CMD_ADD_DATA_SERVICE" } }
    \cup BadTextPackets
    \cup { Pkt("CMD_GET_MOOLTIPASS_PARM", 1, << 1 >>),
           Pkt("CMD_START_MEMORYMGMT", 0, << >>) }

\* the packets of the login specification: the login and password of a context,
\* and the commands that answer with something else than one status byte
LoginPackets ==
    { Pkt("CMD_ADD_CONTEXT", 2, UpperName) }
    \cup { Pkt("CMD_SET_LOGIN", 3, MixedLogin), Pkt("CMD_GET_LOGIN", 0, << >>),
           Pkt("CMD_SET_PASSWORD", 2, UpperName) }
    \cup { Pkt("CMD_CHECK_PASSWORD", 2, name) : name \in { UpperName, LowerName } }
    \cup { Pkt("CMD_CHECK_PASSWORD", 2, Letters(PACKET_EXPORT_SIZE)) }
    \cup { Pkt("CMD_SET_DATE", len, << 1, 2 >>) : len \in { 0, 2 } }
    \cup { Pkt("CMD_GET_MOOLTIPASS_PARM", len, << 1 >>) : len \in { 0, 1 } }
    \cup { Pkt(cmd, 0, << >>) : cmd \in { "CMD_START_MEMORYMGMT", "CMD_GET_CARD_CPZ_CTR" } }

\* a payload of n bytes, the first of them b
Block(n, b) == [ i \in 1..n |-> IF i = 1 THEN b ELSE 7 ]

\* the packets of the device specification: UID, bootloader password, jump,
\* media import and parameters
DevicePackets ==
    { Pkt("CMD_SET_UID", UID_REQUEST_KEY_SIZE + UID_SIZE,
          Block(UID_REQUEST_KEY_SIZE + UID_SIZE, b)) : b \in { 1, 2 } }
    \cup { Pkt("CMD_SET_UID", UID_REQUEST_KEY_SIZE, Block(UID_REQUEST_KEY_SIZE, 1)) }
    \cup { Pkt("CMD_GET_UID", len, Block(UID_REQUEST_KEY_SIZE, 1)) :
            len \in { UID_REQUEST_KEY_SIZE, UID_REQUEST_KEY_SIZE + 1 } }
    \cup { Pkt("CMD_GET_UID", UID_REQUEST_KEY_SIZE,
                [ i \in 1..UID_REQUEST_KEY_SIZE |-> IF i = 1 THEN 1 ELSE 8 ]) }
    \cup { Pkt("CMD_SET_BOOTLOADER_PWD", PACKET_EXPORT_SIZE, Block(PACKET_EXPORT_SIZE, b)) :
            b \in { 1, 2 } }
    \cup { Pkt("CMD_SET_BOOTLOADER_PWD", 1, Block(PACKET_EXPORT_SIZE, 1)) }
    \cup { Pkt(cmd, PACKET_EXPORT_SIZE, Block(PACKET_EXPORT_SIZE, b)) :
            cmd \in { "CMD_JUMP_TO_BOOTLOADER", "CMD_IMPORT_MEDIA_START" }, b \in { 1, 2 } }
    \cup { Pkt(cmd, 1, Block(PACKET_EXPORT_SIZE, 1)) :
            cmd \in { "CMD_JUMP_TO_BOOTLOADER", "CMD_IMPORT_MEDIA_START" } }
    \cup { Pkt("CMD_IMPORT_MEDIA", PACKET_EXPORT_SIZE, Block(PACKET_EXPORT_SIZE, 3)),
           Pkt("CMD_IMPORT_MEDIA_END", 0, << >>) }
    \cup { Pkt("CMD_SET_MOOLTIPASS_PARM", len, << LOCK_TIMEOUT_ENABLE_PARAM, 9 >>) :
            len \in { 1, 2 } }

\* the packets of the confirmation specification: every command that asks the
\* user, and the bootloader password that two of them need
ConfirmPackets ==
    { Pkt("CMD_START_MEMORYMGMT", 0, << >>), Pkt("CMD_READ_CARD_PASS", 0, << >>),
      Pkt("CMD_READ_CARD_LOGIN", 0, << >>),
      Pkt("CMD_SET_BOOTLOADER_PWD", PACKET_EXPORT_SIZE, Block(PACKET_EXPORT_SIZE, 1)) }
    \cup { Pkt("CMD_UNLOCK_WITH_PIN", len, << 1, 2 >>) : len \in { 1, 2 } }
    \cup { Pkt(cmd, len, UpperName) :
            cmd \in { "CMD_SET_CARD_LOGIN", "CMD_SET_CARD_PASS" }, len \in { 2, 3 } }
    \cup { Pkt(cmd, PACKET_EXPORT_SIZE, Block(PACKET_EXPORT_SIZE, b)) :
            cmd \in { "CMD_JUMP_TO_BOOTLOADER", "CMD_IMPORT_MEDIA_START" }, b \in { 1, 2 } }

\* the packets of the node-write specification
NodeWritePackets ==
    { Pkt(cmd, 0, << >>) : cmd \in { "CMD_START_MEMORYMGMT", "CMD_END_MEMORYMGMT" } }
    \cup WritePackets

(***************************************************************************)
(* Specification                                                           *)
(***************************************************************************)
Init ==
    /\ memoryManagementModeApproved = FALSE
    /\ currentNodeWritten = NODE_ADDR_NULL
    /\ flash = [ pg \in Pages |-> InitialPage(pg) ]
    /\ flashBuf = InitialPage(0)
    /\ cardAbsent = TRUE
    /\ cardUnlocked = FALSE
    /\ cardUser = NO_USER
    /\ currentUserID = NO_USER
    /\ currentScreen = SCREEN_DEFAULT_NINSERTED
    /\ favorites = NoFavorites
    /\ startingParent = [ u \in 0..NumUsers |-> NODE_ADDR_NULL ]
    /\ dataStartingParent = [ u \in 0..NumUsers |-> NODE_ADDR_NULL ]
    /\ profileCtr = [ u \in 0..NumUsers |-> [ i \in 1..USER_CTR_SIZE |-> 0 ] ]
    /\ rx = [ caller |-> USB_CALLER_MAIN, cmd |-> "none", len |-> 0, data |-> << >> ]
    /\ sent = << >>
    /\ calls = << >>
    /\ viaTrailer = FALSE
    /\ mgmtEnded = FALSE
    /\ writtenSubs = {}
    /\ wrSeq = NoSeq
    /\ nPackets = 0
    /\ favHist = NoFavorites
    /\ addedNames = { }
    /\ loginHist = << >>
    /\ services = << >>
    /\ currentContext = << >>
    /\ mediaFlashImportApproved = FALSE
    /\ mediaFlashImportPage = 0
    /\ mediaFlashImportOffset = 0
    /\ eepUidRequestKeySet = EEP_ERASED
    /\ eepUidBlock = ErasedBlock(UID_REQUEST_KEY_SIZE + UID_SIZE)
    /\ eepBootPwdSet = EEP_ERASED
    /\ eepBootPwd = ErasedBlock(PACKET_EXPORT_SIZE)
    /\ eepBootkey = ErasedWord
    /\ eepBackupBootkey = ErasedWord
    /\ mpParams = << >>
    /\ mp_timeout_enabled = EepromParameter(LOCK_TIMEOUT_ENABLE_PARAM)
    /\ cardZones = [ u \in 0..NumUsers |-> NoCardText ]
    /\ readEnd = 0
    /\ importOpen = FALSE
    /\ wrImage = [ addr |-> NODE_ADDR_NULL, image |-> << >> ]
    /\ dataBlocks = << >>
    /\ pc = "idle"
    /\ pending = NoPending
    /\ waited = 0

\* packets received in one run of the dispatcher specification
MaxPackets == 3
\* packets received in one run of the node-write specification
MaxWritePackets == 4
\* packets received in one run of the text-field specification
MaxTextPackets == 3
\* packets received in one run of the login specification
MaxLoginPackets == 3
\* packets received in one run of the device specification
MaxDevicePackets == 3
\* packets received in one run of the confirmation specification
MaxConfirmPackets == 3

\* the payload bytes one call reads are data[0..ReadEnd-1]: the text-field check
\* (usb_cmd_parser.c:135, strlen reads up to and including the first null byte)
\* and the fields each handler takes from msg->body.data
HandlerReadEnd(p) ==
    CASE p.cmd = "CMD_PING" -> 4
      [] p.cmd = "CMD_READ_FLASH_NODE" -> IF p.len = 2 THEN 2 ELSE 0
      [] p.cmd = "CMD_SET_FAVORITE" -> IF p.len = 5 THEN 5 ELSE 0
      [] p.cmd = "CMD_GET_FAVORITE" -> IF p.len = 1 THEN 1 ELSE 0
      [] p.cmd \in { "CMD_SET_STARTING_PARENT", "CMD_SET_DN_START_PARENT" } ->
            IF p.len = 2 THEN 2 ELSE 0
      [] p.cmd = "CMD_SET_CTRVALUE" -> IF p.len = USER_CTR_SIZE THEN USER_CTR_SIZE ELSE 0
      [] p.cmd = "CMD_WRITE_FLASH_NODE" ->
            IF p.len < 3 THEN 0
            ELSE IF sent' # << StatusByteMsg(p.cmd, PLUGIN_BYTE_OK) >> THEN 3
            ELSE IF Byte(p, 2, 0) = 0 /\ p.len < 5 THEN 5
            ELSE p.len
      [] p.cmd = "CMD_GET_MOOLTIPASS_PARM" -> 1
      [] p.cmd = "CMD_SET_DATE" -> 2
      [] p.cmd = "CMD_SET_UID" ->
            IF "eeprom_write_block" \in CallNames(calls')
            THEN UID_REQUEST_KEY_SIZE + UID_SIZE ELSE 0
      [] p.cmd = "CMD_GET_UID" ->
            IF "memcmp" \in CallNames(calls') THEN UID_REQUEST_KEY_SIZE ELSE 0
      [] p.cmd = "CMD_SET_BOOTLOADER_PWD" ->
            IF "eeprom_write_block" \in CallNames(calls') THEN PACKET_EXPORT_SIZE ELSE 0
      [] p.cmd \in { "CMD_JUMP_TO_BOOTLOADER", "CMD_IMPORT_MEDIA_START" } ->
            IF "memcmp" \in CallNames(calls') THEN PACKET_EXPORT_SIZE ELSE 0
      [] p.cmd = "CMD_IMPORT_MEDIA" ->
            IF "flashWriteBuffer" \in CallNames(calls') THEN p.len ELSE 0
      [] p.cmd = "CMD_SET_MOOLTIPASS_PARM" -> IF p.len = 2 THEN 2 ELSE 0
      [] p.cmd = "CMD_UNLOCK_WITH_PIN" ->
            IF "validCardDetectedFunction" \in CallNames(calls') THEN 2 ELSE 0
      [] p.cmd = "CMD_ADD_UNKNOWN_CARD" ->
            IF "addNewUserForExistingCard" \in CallNames(calls')
            THEN SMARTCARD_CPZ_LENGTH + AES256_CTR_LENGTH
            ELSE IF "memcmp" \in CallNames(calls') THEN SMARTCARD_CPZ_LENGTH ELSE 0

      [] p.cmd = "CMD_WRITE_32B_IN_DN" -> 1 + DATA_NODE_BLOCK_SIZ

      [] OTHER -> 0

ReadEnd(caller, p, g) ==
    IF IsStatusRequest(caller, p.cmd) THEN 0
    ELSE IF p.cmd \in TextFieldCmds
    THEN (IF p.len > MaxTextSize(p.cmd) \/ p.len = 0 THEN 0 ELSE StrLen(p, g) + 1)
    ELSE IF PrivilegeRejected(p.cmd) THEN 0
    ELSE HandlerReadEnd(p)

\* what the observer records of one call
Observe(caller, p) ==
    /\ \E g \in StackBytes : readEnd' = ReadEnd(caller, p, g)
    /\ favHist' =
          IF /\ p.cmd = "CMD_SET_FAVORITE"
             /\ sent' = << StatusByteMsg(p.cmd, PLUGIN_BYTE_OK) >>
             /\ Byte(p, 0, 0) \in FavSlots
          THEN [ favHist EXCEPT ![currentUserID][Byte(p, 0, 0)] =
                    << Word(p, 1, 0), Word(p, 3, 0) >> ]
          ELSE favHist
    /\ addedNames' =
          IF /\ p.cmd \in { "CMD_ADD_CONTEXT", "CMD_ADD_DATA_SERVICE" }
             /\ sent' = << StatusByteMsg(p.cmd, PLUGIN_BYTE_OK) >>
          THEN addedNames \cup { << currentUserID, ServiceType(p.cmd), TextOf(p, 0) >> }
          ELSE addedNames
    /\ loginHist' =
          IF p.cmd = "CMD_SET_LOGIN" /\ sent' = << StatusByteMsg(p.cmd, PLUGIN_BYTE_OK) >>
          THEN [ k \in DOMAIN loginHist \cup { currentContext } |->
                   IF k = currentContext THEN TextOf(p, 0) ELSE loginHist[k] ]
          ELSE loginHist
    /\ wrImage' =
          IF p.cmd = "CMD_WRITE_FLASH_NODE" /\ "loadPageToInternalBuffer" \in CallNames(calls')
          THEN [ addr |-> Word(p, 0, 0),
                 image |-> IF sent' = << StatusByteMsg(p.cmd, PLUGIN_BYTE_OK) >>
                           THEN WriteAt(flash[pageNumberFromAddress(Word(p, 0, 0))],
                                        NODE_SIZE * nodeNumberFromAddress(Word(p, 0, 0)),
                                        WritePayload(p, 0, p.len - 3, TRUE))
                           ELSE flash[pageNumberFromAddress(Word(p, 0, 0))] ]
          ELSE IF /\ p.cmd = "CMD_WRITE_FLASH_NODE"
                  /\ sent' = << StatusByteMsg(p.cmd, PLUGIN_BYTE_OK) >>
          THEN [ wrImage EXCEPT !.image =
                    WriteAt(wrImage.image,
                            NODE_SIZE * nodeNumberFromAddress(Word(p, 0, 0))
                                + Byte(p, 2, 0) * WritePacketCapacity,
                            WritePayload(p, 0, p.len - 3, Byte(p, 2, 0) = 0)) ]
          ELSE wrImage
    /\ importOpen' =
          IF caller = USB_CALLER_PIN THEN importOpen
          ELSE IF p.cmd = "CMD_IMPORT_MEDIA_START"
          THEN sent' = << StatusByteMsg(p.cmd, PLUGIN_BYTE_OK) >>
          ELSE IF p.cmd = "CMD_IMPORT_MEDIA_END" THEN FALSE
          ELSE IF p.cmd = "CMD_IMPORT_MEDIA"
          THEN importOpen /\ sent' = << StatusByteMsg(p.cmd, PLUGIN_BYTE_OK) >>
          ELSE importOpen

Dispatch(P, max) ==
    \E caller \in Callers, p \in P :
        /\ nPackets < max
        /\ CallerPossible(caller)
        /\ PathModelled(caller, p)
        /\ usbProcessIncoming(caller, p)
        /\ Observe(caller, p)

InsertCard == \E u \in Users \cup { NO_USER } : CardInserted(u)

Next == Dispatch(Packets, MaxPackets) \/ CardRemoved \/ InsertCard \/ CardUnlockedByPin

Spec == Init /\ [][Next]_vars

NextNodeWrite == Dispatch(NodeWritePackets, MaxWritePackets) \/ CardRemoved \/ InsertCard \/ CardUnlockedByPin

SpecNodeWrite == Init /\ [][NextNodeWrite]_vars

NextText == Dispatch(TextPackets, MaxTextPackets) \/ CardRemoved \/ InsertCard \/ CardUnlockedByPin

SpecText == Init /\ [][NextText]_vars

NextLogin == Dispatch(LoginPackets, MaxLoginPackets) \/ CardRemoved \/ InsertCard \/ CardUnlockedByPin

SpecLogin == Init /\ [][NextLogin]_vars

NextDevice == Dispatch(DevicePackets, MaxDevicePackets) \/ CardRemoved \/ InsertCard \/ CardUnlockedByPin

SpecDevice == Init /\ [][NextDevice]_vars

NextConfirm == Dispatch(ConfirmPackets, MaxConfirmPackets) \/ CardRemoved \/ InsertCard \/ CardUnlockedByPin

SpecConfirm == Init /\ [][NextConfirm]_vars


(***************************************************************************)
(* Properties                                                              *)
(***************************************************************************)
\* the step is one call of usbProcessIncoming that received a packet; the
\* packet and its caller are rx', what it sent is sent'
Received == nPackets' = nPackets + 1

ErrorOnly(cmd) == << StatusByteMsg(cmd, PLUGIN_BYTE_ERROR) >>
OkOnly(cmd) == << StatusByteMsg(cmd, PLUGIN_BYTE_OK) >>

\* the address and the sub-index a packet carries
PktAddr(p) == Word(p, 0, 0)
PktSub(p) == Byte(p, 2, 0)

\* C1: outside PIN entry, a command of the data-management range received while
\* memoryManagementModeApproved is FALSE is answered with exactly one 1-byte
\* PLUGIN_BYTE_ERROR response echoing the command, no handler runs (no
\* collaborator is called) and no session, in-flight, flash or profile state changes.
C1_PrivilegedRangeRejected ==
    [][ ( /\ Received
          /\ rx'.caller # USB_CALLER_PIN
          /\ rx'.cmd \in DataMgmtCmds
          /\ memoryManagementModeApproved = FALSE )
        => ( /\ sent' = ErrorOnly(rx'.cmd)
             /\ calls' = << >>
             /\ programVars' = programVars ) ]_vars

\* a CMD_SET_STARTING_PARENT with a well-formed payload was refused outside the mode
C1_Witness ==
    /\ nPackets > 0
    /\ rx.caller = USB_CALLER_MAIN
    /\ rx.cmd = "CMD_SET_STARTING_PARENT" /\ rx.len = 2
    /\ memoryManagementModeApproved = FALSE
    /\ cardUnlocked
    /\ sent = ErrorOnly(rx.cmd)

\* the trace of a CMD_START_MEMORYMGMT whose three checks passed, in order
StartChecksPassed(cs) ==
    /\ Len(cs) >= 3
    /\ cs[1] = Call("getSmartCardInsertedUnlocked", BoolVal(TRUE))
    /\ cs[2] = Call("guiAskForConfirmation", RETURN_OK)
    /\ cs[3] = Call("removeCardAndReAuthUser", RETURN_OK)

\* C2: memoryManagementModeApproved goes from FALSE to TRUE only in a
\* CMD_START_MEMORYMGMT packet in which getSmartCardInsertedUnlocked() returned
\* TRUE, then guiAskForConfirmation RETURN_OK, then removeCardAndReAuthUser
\* RETURN_OK; when one of the three fails the flag is not set and the response is
\* PLUGIN_BYTE_ERROR.
C2_ModeEntryNeedsAllThree ==
    [][ /\ ( memoryManagementModeApproved = FALSE /\ memoryManagementModeApproved' = TRUE )
           => ( /\ Received
                /\ rx'.cmd = "CMD_START_MEMORYMGMT"
                /\ StartChecksPassed(calls')
                /\ sent' = OkOnly(rx'.cmd) )
        /\ ( /\ Received
             /\ rx'.cmd = "CMD_START_MEMORYMGMT"
             /\ rx'.caller # USB_CALLER_PIN
             /\ ~StartChecksPassed(calls') )
           => ( /\ sent' = ErrorOnly(rx'.cmd)
                /\ memoryManagementModeApproved' => memoryManagementModeApproved ) ]_vars

\* memory management mode was entered by an approved and re-authenticated start
C2_Witness ==
    /\ rx.cmd = "CMD_START_MEMORYMGMT"
    /\ memoryManagementModeApproved = TRUE
    /\ StartChecksPassed(calls)
    /\ sent = OkOnly(rx.cmd)

\* leaveMemoryManagementMode() ran before populateServicesLut() and scanNodeUsage()
RefreshedAfterLeave(cs) ==
    /\ FirstCall(cs, "leaveMemoryManagementMode") > 0
    /\ FirstCall(cs, "populateServicesLut") > FirstCall(cs, "leaveMemoryManagementMode")
    /\ FirstCall(cs, "scanNodeUsage") > FirstCall(cs, "leaveMemoryManagementMode")

EndAccepted ==
    ( Received /\ rx'.cmd = "CMD_END_MEMORYMGMT" /\ memoryManagementModeApproved = TRUE )
    => ( /\ memoryManagementModeApproved' = FALSE
         /\ currentNodeWritten' = NODE_ADDR_NULL
         /\ RefreshedAfterLeave(calls')
         /\ sent' = OkOnly(rx'.cmd) )

\* C3 as stated: after an accepted CMD_END_MEMORYMGMT the flag is FALSE, the
\* write target is NODE_ADDR_NULL, both refreshes ran after the flag was cleared,
\* the response is PLUGIN_BYTE_OK, and every later command of the data-management
\* range is answered PLUGIN_BYTE_ERROR until a CMD_START_MEMORYMGMT succeeds.
C3_Original ==
    [][ /\ EndAccepted
        /\ ( mgmtEnded /\ Received /\ rx'.cmd \in DataMgmtCmds )
           => sent' = ErrorOnly(rx'.cmd) ]_vars

\* C3 amended: as C3, for the later commands received outside PIN entry (during
\* PIN entry every packet is answered with the status byte).
C3_EndLeavesMode ==
    [][ /\ EndAccepted
        /\ ( /\ mgmtEnded /\ Received
             /\ rx'.cmd \in DataMgmtCmds
             /\ rx'.caller # USB_CALLER_PIN )
           => sent' = ErrorOnly(rx'.cmd) ]_vars

\* after an accepted end, a later node read was refused
C3_Witness ==
    /\ mgmtEnded
    /\ rx.caller = USB_CALLER_MAIN
    /\ rx.cmd = "CMD_READ_FLASH_NODE" /\ rx.len = 2
    /\ cardUnlocked
    /\ sent = ErrorOnly(rx.cmd)

\* C4: memoryManagementModeApproved = FALSE implies currentNodeWritten =
\* NODE_ADDR_NULL in every reachable state.
C4_NoWriteInFlightOutsideMode ==
    memoryManagementModeApproved = FALSE => currentNodeWritten = NODE_ADDR_NULL

\* C5: a CMD_WRITE_FLASH_NODE packet whose address fails checkUserPermission for
\* the active user is answered PLUGIN_BYTE_ERROR and stages and commits nothing.
C5_ForeignNodeNeverWritten ==
    [][ ( /\ Received
          /\ rx'.cmd = "CMD_WRITE_FLASH_NODE"
          /\ rx'.caller # USB_CALLER_PIN
          /\ memoryManagementModeApproved = TRUE
          /\ rx'.len >= 3
          /\ ~checkUserPermission(PktAddr(rx')) )
        => ( /\ sent' = ErrorOnly(rx'.cmd)
             /\ CallNames(calls') \cap { "flashWriteBuffer", "flashWriteBufferToPage" } = {}
             /\ flashBuf' = flashBuf
             /\ flash' = flash ) ]_vars

\* C6: in memory management mode a CMD_READ_FLASH_NODE packet is answered with
\* the NODE_SIZE bytes of the node exactly when datalen = 2 and
\* checkUserPermission(address) is RETURN_OK; otherwise readNode is not called and
\* the only response is one PLUGIN_BYTE_ERROR byte.
C6_ReadNeedsLengthAndOwnership ==
    [][ ( /\ Received
          /\ rx'.cmd = "CMD_READ_FLASH_NODE"
          /\ memoryManagementModeApproved = TRUE )
        => IF rx'.len = 2 /\ checkUserPermission(PktAddr(rx'))
           THEN sent' = << Msg(rx'.cmd, NODE_SIZE, readNode(PktAddr(rx'))) >>
           ELSE /\ sent' = ErrorOnly(rx'.cmd)
                /\ "readNode" \notin CallNames(calls') ]_vars

\* a read of another user's node was refused in memory management mode
C6_Witness ==
    /\ rx.cmd = "CMD_READ_FLASH_NODE" /\ rx.len = 2
    /\ memoryManagementModeApproved = TRUE
    /\ PktAddr(rx) \in NodeAddrs
    /\ ~checkUserPermission(PktAddr(rx))
    /\ sent = ErrorOnly(rx.cmd)

\* C7: a CMD_WRITE_FLASH_NODE packet rejected because its address differs from
\* currentNodeWritten or because its bytes would pass the end of the node leaves
\* currentNodeWritten and the staging buffer as they were, for every sub-index.
C7_RejectedWriteChangesNothing ==
    [][ ( /\ Received
          /\ rx'.cmd = "CMD_WRITE_FLASH_NODE"
          /\ rx'.caller # USB_CALLER_PIN
          /\ memoryManagementModeApproved = TRUE
          /\ rx'.len >= 3
          /\ sent' = ErrorOnly(rx'.cmd)
          /\ \/ PktAddr(rx') # currentNodeWritten
             \/ PktSub(rx') * WritePacketCapacity + (rx'.len - 3) > NODE_SIZE )
        => ( currentNodeWritten' = currentNodeWritten /\ flashBuf' = flashBuf ) ]_vars

\* the payloads of a write sequence, one after the other
RECURSIVE Concat(_)
Concat(chunks) ==
    IF chunks = << >> THEN << >> ELSE Head(chunks) \o Concat(Tail(chunks))

\* packets of sub-index 0..LastSubIndex for one node were accepted in order and
\* their payloads make up a whole node
SequenceComplete(w) ==
    /\ w.addr # NODE_ADDR_NULL
    /\ Len(w.chunks) = LastSubIndex + 1
    /\ Len(Concat(w.chunks)) = NODE_SIZE

\* a node payload with the user-id field of its flags word set to `uid`
OwnedBy(bytes, uid) == [ bytes EXCEPT ![2] = FlagsHiWithUser(@, uid) ]

\* the page of w.addr holds `bytes` in the node's slot and what was loaded elsewhere
CommittedAs(w, bytes) ==
    flash'[pageNumberFromAddress(w.addr)]
        = WriteAt(w.page0, NODE_SIZE * nodeNumberFromAddress(w.addr), bytes)

\* a packet for another node arrives after sub-index 0 and before the last one
MidSequenceMismatch ==
    /\ Received
    /\ rx'.cmd = "CMD_WRITE_FLASH_NODE"
    /\ rx'.caller # USB_CALLER_PIN
    /\ wrSeq # NoSeq
    /\ Len(wrSeq.chunks) <= LastSubIndex
    /\ rx'.len >= 3
    /\ PktAddr(rx') # wrSeq.addr

StagingUntouched ==
    /\ sent' = ErrorOnly(rx'.cmd)
    /\ flashBuf' = flashBuf
    /\ currentNodeWritten' = currentNodeWritten
    /\ flash' = flash

\* the write target is now `addr` and the staging buffer holds its page as it is
\* in flash, but for the bytes an accepted packet put into the node's slot
Retargeted(addr) ==
    /\ currentNodeWritten' = addr
    /\ flash' = flash
    /\ \A i \in 1..BYTES_PER_PAGE :
          (i - 1) \div NODE_SIZE # nodeNumberFromAddress(addr)
          => flashBuf'[i] = flash[pageNumberFromAddress(addr)][i]
    /\ sent' = ErrorOnly(rx'.cmd) => flashBuf' = flash[pageNumberFromAddress(addr)]

WriteCommitted == "flashWriteBufferToPage" \in CallNames(calls')

CommitRule ==
    /\ WriteCommitted <=> ( sent' = OkOnly(rx'.cmd) /\ PktSub(rx') = LastSubIndex )
    /\ WriteCommitted =>
         /\ currentNodeWritten' = currentNodeWritten
         /\ PktAddr(rx') = currentNodeWritten
         /\ flash' = [ flash EXCEPT ![pageNumberFromAddress(currentNodeWritten)] = flashBuf' ]
    /\ ~WriteCommitted => flash' = flash

\* C9 as stated: CMD_WRITE_FLASH_NODE commits the staging buffer only in an
\* accepted packet whose sub-index is NODE_SIZE/(PACKET_EXPORT_SIZE-3), only to
\* the page of currentNodeWritten, and only after packets of every lower
\* sub-index for that address were accepted since the target was established.
C9_Original ==
    [][ ( Received /\ rx'.cmd = "CMD_WRITE_FLASH_NODE" )
        => ( /\ CommitRule
             /\ WriteCommitted => (0..(LastSubIndex - 1)) \subseteq writtenSubs ) ]_vars

\* C9 amended: CMD_WRITE_FLASH_NODE commits the staging buffer exactly in the
\* accepted packets whose sub-index is NODE_SIZE/(PACKET_EXPORT_SIZE-3), and only
\* to the page of currentNodeWritten; no other write packet changes flash. (The
\* lower sub-indexes need not have been accepted.)
C9_CommitOnLastSubIndexOnly ==
    [][ ( Received /\ rx'.cmd = "CMD_WRITE_FLASH_NODE" ) => CommitRule ]_vars

\* a page was committed by the last packet of a sequence for the current target
C9_Witness ==
    /\ rx.cmd = "CMD_WRITE_FLASH_NODE"
    /\ PktSub(rx) = LastSubIndex
    /\ "flashWriteBufferToPage" \in CallNames(calls)
    /\ sent = OkOnly(rx.cmd)
    /\ flash[pageNumberFromAddress(currentNodeWritten)] = flashBuf
    /\ flash[pageNumberFromAddress(currentNodeWritten)]
         # InitialPage(pageNumberFromAddress(currentNodeWritten))

\* C10: when usbProcessIncoming is called with USB_CALLER_PIN, or the command is
\* CMD_MOOLTIPASS_STATUS, it sends exactly one CMD_MOOLTIPASS_STATUS response of
\* length 1, runs no text-field check, privilege check or handler (the only
\* collaborators called are the three the status byte is computed from) and
\* changes no session, in-flight or persistent state.
C10_StatusShortCircuit ==
    [][ ( /\ Received
          /\ rx'.caller = USB_CALLER_PIN \/ rx'.cmd = "CMD_MOOLTIPASS_STATUS" )
        => ( /\ Len(sent') = 1
             /\ sent'[1].cmd = "CMD_MOOLTIPASS_STATUS"
             /\ sent'[1].len = 1
             /\ CallNames(calls')
                  = { "isSmartCardAbsent", "getSmartCardInsertedUnlocked", "getCurrentScreen" }
             /\ programVars' = programVars ) ]_vars

\* outside PIN entry, in memory management mode, a status request was answered
\* with the status byte alone
C10_Witness ==
    /\ rx.cmd = "CMD_MOOLTIPASS_STATUS"
    /\ rx.caller = USB_CALLER_MAIN
    /\ memoryManagementModeApproved = TRUE
    /\ Len(sent) = 1
    /\ sent[1] = StatusByteMsg("CMD_MOOLTIPASS_STATUS", 5)

\* bit `n` of byte `b`
Bit(b, n) == (b \div (2 ^ n)) % 2 = 1

\* C11: the byte of the CMD_MOOLTIPASS_STATUS response has bit 0 set iff the
\* card is present, bit 1 iff the caller is USB_CALLER_PIN, bit 2 iff the card is
\* inserted and unlocked, bit 3 iff the screen is SCREEN_DEFAULT_INSERTED_UNKNOWN,
\* and bits 4..7 clear.
C11_StatusBits ==
    [][ ( /\ Received
          /\ rx'.caller = USB_CALLER_PIN \/ rx'.cmd = "CMD_MOOLTIPASS_STATUS" )
        => LET b == sent'[1].data[1]
           IN  /\ Bit(b, 0) <=> ~cardAbsent
               /\ Bit(b, 1) <=> rx'.caller = USB_CALLER_PIN
               /\ Bit(b, 2) <=> cardUnlocked
               /\ Bit(b, 3) <=> currentScreen = SCREEN_DEFAULT_INSERTED_UNKNOWN
               /\ b < 16 ]_vars

\* a status request was answered while an unknown card was shown: bits 0 and 3
C11_Witness ==
    /\ rx.cmd = "CMD_MOOLTIPASS_STATUS"
    /\ currentScreen = SCREEN_DEFAULT_INSERTED_UNKNOWN
    /\ sent = << StatusByteMsg("CMD_MOOLTIPASS_STATUS", 9) >>

CancelReceived == Received /\ rx'.cmd = "CMD_CANCEL_REQUEST"

PktSlot(p) == Byte(p, 0, 0)

\* C16: in memory management mode a CMD_GET_FAVORITE(slot) with datalen 1
\* returns a 4-byte response holding the pair of the last CMD_SET_FAVORITE with
\* datalen 5 answered PLUGIN_BYTE_OK for that slot, and the null-address pair
\* when the slot was never set; setting one slot leaves the others as they were.
C16_FavoriteRoundTrip ==
    [][ ( /\ Received
          /\ rx'.cmd = "CMD_GET_FAVORITE" /\ rx'.len = 1
          /\ memoryManagementModeApproved = TRUE
          /\ PktSlot(rx') \in FavSlots )
        => sent' = << Msg(rx'.cmd, 4,
                          WordBytes(favHist[currentUserID][PktSlot(rx')][1])
                          \o WordBytes(favHist[currentUserID][PktSlot(rx')][2])) >> ]_vars

\* the favorite set in slot 0 was read back
C16_Witness ==
    /\ rx.cmd = "CMD_GET_FAVORITE" /\ rx.len = 1
    /\ PktSlot(rx) = 0
    /\ favHist[currentUserID][0] = << NodeAddress(1, 0), NodeAddress(1, 1) >>
    /\ sent = << Msg(rx.cmd, 4, WordBytes(NodeAddress(1, 0)) \o WordBytes(NodeAddress(1, 1))) >>

\* C17: every CMD_SET_FAVORITE and CMD_GET_FAVORITE packet whose slot byte is
\* outside the favorites table is answered PLUGIN_BYTE_ERROR, and setFav and
\* readFav are not called with that slot.
C17_FavoriteSlotChecked ==
    [][ ( /\ Received
          /\ rx'.cmd \in { "CMD_SET_FAVORITE", "CMD_GET_FAVORITE" }
          /\ rx'.caller # USB_CALLER_PIN
          /\ memoryManagementModeApproved = TRUE
          /\ rx'.len >= 1
          /\ PktSlot(rx') \notin FavSlots )
        => ( /\ sent' = ErrorOnly(rx'.cmd)
             /\ CallNames(calls') \cap { "setFav", "readFav" } = {} ) ]_vars

\* the payload's first null byte is at index k
FirstNullAt(p, k) ==
    /\ k >= 0
    /\ Byte(p, k, 0) = 0
    /\ \A i \in 0..(k - 1) : Byte(p, i, 0) # 0

\* the declared length is nonzero, within the field and the transport, and the
\* first null byte of the payload is the last declared byte
TextFieldValid(p) ==
    /\ p.len # 0
    /\ p.len <= MaxTextSize(p.cmd)
    /\ p.len <= PACKET_EXPORT_SIZE
    /\ FirstNullAt(p, p.len - 1)

TextReceived == Received /\ rx'.cmd \in TextFieldCmds

\* C13 as stated: for each of the nine text-field commands the handler runs only
\* if the text field is valid; otherwise exactly one PLUGIN_BYTE_ERROR response
\* echoing the command id is sent and no handler, node-store or smartcard
\* operation is executed.
C13_Original ==
    [][ TextReceived /\ ~TextFieldValid(rx')
        => ( /\ sent' = ErrorOnly(rx'.cmd)
             /\ calls' = << >>
             /\ programVars' = programVars ) ]_vars

\* C13 amended: for a text-field command processed outside PIN-entry mode the
\* handler runs only if the text field is valid; otherwise exactly one
\* PLUGIN_BYTE_ERROR response echoing the command id is sent, no collaborator
\* is called and no state changes.
C13_TextFieldChecked ==
    [][ TextReceived /\ rx'.caller # USB_CALLER_PIN
        => ( /\ calls' # << >> => TextFieldValid(rx')
             /\ ~TextFieldValid(rx')
                => ( /\ sent' = ErrorOnly(rx'.cmd)
                     /\ calls' = << >>
                     /\ programVars' = programVars ) ) ]_vars

\* a context command whose declared length is not the string's was refused
\* while the card was unlocked
C13_Witness ==
    /\ rx.cmd = "CMD_CONTEXT"
    /\ rx.caller = USB_CALLER_MAIN
    /\ rx.len = 3
    /\ rx.data = LowerName
    /\ cardUnlocked
    /\ sent = ErrorOnly("CMD_CONTEXT")
    /\ calls = << >>

\* two texts that differ in letter case only
SameModuloCase(a, b) ==
    /\ Len(a) = Len(b)
    /\ \A i \in 1..Len(a) : ToLower(a[i]) = ToLower(b[i])
NoUpperCase(a) == \A i \in 1..Len(a) : a[i] \notin 65..90

\* the name argument of the context call a step made, << >> when it made none
NamePassed(cs) ==
    IF "addNewContext" \in CallNames(cs) THEN cs[FirstCall(cs, "addNewContext")][2][1]
    ELSE IF "setCurrentContext" \in CallNames(cs)
    THEN cs[FirstCall(cs, "setCurrentContext")][2][1]
    ELSE << >>
ContextCalled(cs) == CallNames(cs) \cap { "addNewContext", "setCurrentContext" } # { }

\* C14: the name the dispatcher passes to addNewContext and to setCurrentContext
\* is the lower-cased name, the same for every casing of a valid service name;
\* a context added under one casing is resolved to that parent when selected
\* under any other casing of the same type by the same user.
C14_ServiceNameCaseFolded ==
    [][ Received /\ rx'.cmd \in ServiceNameCmds /\ rx'.caller # USB_CALLER_PIN
        => ( /\ ContextCalled(calls')
                => ( /\ SameModuloCase(NamePassed(calls'), TextOf(rx', 0))
                     /\ NoUpperCase(NamePassed(calls')) )
             /\ \A a \in addedNames :
                  ( /\ rx'.cmd \in { "CMD_CONTEXT", "CMD_SET_DATA_SERVICE" }
                    /\ TextFieldValid(rx')
                    /\ cardUnlocked
                    /\ a[1] = currentUserID
                    /\ a[2] = ServiceType(rx'.cmd)
                    /\ SameModuloCase(a[3], TextOf(rx', 0)) )
                  => ( /\ sent' = OkOnly(rx'.cmd)
                       /\ currentContext' = ContextKey(a[1], a[2], NamePassed(calls'))
                       /\ currentContext' \in DOMAIN services' ) ) ]_vars

\* a context added as "A" was selected as "a"
C14_Witness ==
    /\ rx.cmd = "CMD_CONTEXT"
    /\ rx.data = LowerName
    /\ sent = OkOnly("CMD_CONTEXT")
    /\ addedNames = { << currentUserID, SERVICE_CRED_TYPE, << 65 >> >> }
    /\ currentContext = ContextKey(currentUserID, SERVICE_CRED_TYPE, << 97 >>)

\* C15: outside PIN entry, a CMD_GET_LOGIN on a context whose login was set by a
\* CMD_SET_LOGIN(L) answered PLUGIN_BYTE_OK is answered with one CMD_GET_LOGIN
\* message of length strlen(L) + 1 whose bytes are L as sent, letter case
\* preserved, and its null byte.
C15_LoginRoundTrip ==
    [][ ( /\ Received
          /\ rx'.cmd = "CMD_GET_LOGIN"
          /\ rx'.caller # USB_CALLER_PIN
          /\ currentContext \in DOMAIN loginHist )
        => sent' = << Msg("CMD_GET_LOGIN", Len(loginHist[currentContext]) + 1,
                          loginHist[currentContext] \o << 0 >>) >> ]_vars

\* the login "Ab" was set and read back with its capital letter
C15_Witness ==
    /\ rx.cmd = "CMD_GET_LOGIN"
    /\ currentContext \in DOMAIN loginHist
    /\ loginHist[currentContext] = << 65, 98 >>
    /\ sent = << Msg("CMD_GET_LOGIN", 3, MixedLogin) >>

\* the response the trailer (or an early validation failure) sent in this step
TrailerResponse == sent'[Len(sent')]
ThroughTrailer == Received /\ viaTrailer' /\ sent' # << >>

CardEntryMsgs(msgs) ==
    \A i \in 1..Len(msgs) : msgs[i].cmd = "CMD_CARD_CPZ_CTR_PACKET"

C20_NoReadPastLength ==
    [][ Received => ( readEnd' <= rx'.len /\ readEnd' <= PACKET_EXPORT_SIZE ) ]_vars

\* the user approved a confirmation prompt during the call
Approved(cs) == \E i \in 1..Len(cs) : cs[i] = Call("guiAskForConfirmation", RETURN_OK)
Asked(cs) == "guiAskForConfirmation" \in CallNames(cs)
\* the payload of the packet is the stored bootloader password, byte for byte
BootPwdSent(p) == PayloadBytes(p, 0, PACKET_EXPORT_SIZE) = eepBootPwd
ImportStartReceived == Received /\ rx'.cmd = "CMD_IMPORT_MEDIA_START"
ImportFlagSet == mediaFlashImportApproved = FALSE /\ mediaFlashImportApproved' = TRUE
ImportConfirmed ==
    /\ rx'.len = PACKET_EXPORT_SIZE
    /\ Approved(calls')
    /\ BootPwdSent(rx')

\* C21 as stated: mediaFlashImportApproved becomes TRUE only while processing a
\* CMD_IMPORT_MEDIA_START packet of PACKET_EXPORT_SIZE bytes that the user
\* approved and whose payload matched the stored bootloader password; in every
\* other case the flag is not set by that packet and the response is
\* PLUGIN_BYTE_ERROR.
C21_Original ==
    [][ /\ ImportFlagSet => ( ImportStartReceived /\ ImportConfirmed )
        /\ ( ImportStartReceived /\ ~ImportConfirmed )
           => ( /\ mediaFlashImportApproved' = mediaFlashImportApproved
                /\ sent' = ErrorOnly(rx'.cmd) ) ]_vars

\* the packet has the length of a password and either no bootloader password is
\* set or the user approved and the payload is the password
ImportGranted ==
    /\ rx'.len = PACKET_EXPORT_SIZE
    /\ \/ eepBootPwdSet # BOOTLOADER_PWDOK_KEY
       \/ Approved(calls') /\ BootPwdSent(rx')

\* C21 amended: mediaFlashImportApproved becomes TRUE only while processing,
\* outside PIN entry, a CMD_IMPORT_MEDIA_START packet of PACKET_EXPORT_SIZE bytes
\* for which either no bootloader password is set, or the user approved the
\* prompt and the payload matched the stored password; such a packet is
\* answered PLUGIN_BYTE_OK, and in every other case a CMD_IMPORT_MEDIA_START
\* processed outside PIN entry does not set the flag and is answered
\* PLUGIN_BYTE_ERROR.
C21_ImportApproval ==
    [][ /\ ImportFlagSet
           => ( ImportStartReceived /\ rx'.caller # USB_CALLER_PIN /\ ImportGranted )
        /\ ( ImportStartReceived /\ rx'.caller # USB_CALLER_PIN )
           => IF ImportGranted
              THEN mediaFlashImportApproved' = TRUE /\ sent' = OkOnly(rx'.cmd)
              ELSE /\ mediaFlashImportApproved' = mediaFlashImportApproved
                   /\ sent' = ErrorOnly(rx'.cmd) ]_vars

\* the import was approved against a set bootloader password
C21_Witness ==
    /\ rx.cmd = "CMD_IMPORT_MEDIA_START"
    /\ eepBootPwdSet = BOOTLOADER_PWDOK_KEY
    /\ Approved(calls)
    /\ BootPwdSent(rx)
    /\ mediaFlashImportApproved = TRUE
    /\ sent = OkOnly("CMD_IMPORT_MEDIA_START")

SetUidReceived == Received /\ rx'.cmd = "CMD_SET_UID"

\* C22: CMD_SET_UID is answered PLUGIN_BYTE_OK at most once: an OK answer is
\* given only while the sentinel is not yet UID_REQUEST_KEY_OK_KEY and sets it;
\* once the sentinel is set no step of any command changes it or the stored
\* request key and UID, no later CMD_SET_UID is answered OK, and every later
\* CMD_SET_UID that reaches its handler is answered PLUGIN_BYTE_ERROR.
C22_UidSetOnce ==
    [][ /\ ( SetUidReceived /\ sent' = OkOnly(rx'.cmd) )
           => ( /\ eepUidRequestKeySet # UID_REQUEST_KEY_OK_KEY
                /\ eepUidRequestKeySet' = UID_REQUEST_KEY_OK_KEY )
        /\ eepUidRequestKeySet = UID_REQUEST_KEY_OK_KEY
           => ( /\ eepUidRequestKeySet' = UID_REQUEST_KEY_OK_KEY
                /\ eepUidBlock' = eepUidBlock
                /\ SetUidReceived
                   => ( /\ sent' # OkOnly(rx'.cmd)
                        /\ rx'.caller # USB_CALLER_PIN => sent' = ErrorOnly(rx'.cmd) ) ) ]_vars

\* a second well-formed CMD_SET_UID was refused
C22_Witness ==
    /\ rx.cmd = "CMD_SET_UID"
    /\ rx.caller # USB_CALLER_PIN
    /\ rx.len = UID_REQUEST_KEY_SIZE + UID_SIZE
    /\ eepUidRequestKeySet = UID_REQUEST_KEY_OK_KEY
    /\ eepUidBlock # PayloadBytes(rx, 0, UID_REQUEST_KEY_SIZE + UID_SIZE)
    /\ sent = ErrorOnly("CMD_SET_UID")

GetUidReceived == Received /\ rx'.cmd = "CMD_GET_UID" /\ rx'.caller # USB_CALLER_PIN
UidResponse == << Msg("CMD_GET_UID", UID_SIZE, StoredUid) >>
RequestKeySent(p) == PayloadBytes(p, 0, UID_REQUEST_KEY_SIZE) = StoredRequestKey

SetBootPwdReceived == Received /\ rx'.cmd = "CMD_SET_BOOTLOADER_PWD"
\* a CMD_SET_BOOTLOADER_PWD has been answered PLUGIN_BYTE_OK: the flag byte is
\* erased until then, and then BOOTLOADER_PWDOK_KEY or, after a jump, FALSE
BootPwdEverSet == eepBootPwdSet # EEP_ERASED
\* the step is a CMD_JUMP_TO_BOOTLOADER that was allowed
JumpTaken ==
    /\ Received /\ rx'.cmd = "CMD_JUMP_TO_BOOTLOADER"
    /\ "wdt_enable_2s" \in CallNames(calls')

\* C24 as stated: once a CMD_SET_BOOTLOADER_PWD has been answered PLUGIN_BYTE_OK,
\* every later CMD_SET_BOOTLOADER_PWD is answered PLUGIN_BYTE_ERROR and the
\* password at EEP_BOOT_PWD is never overwritten, over every sequence of
\* packets, CMD_JUMP_TO_BOOTLOADER and its reset included.
C24_Original ==
    [][ /\ ( SetBootPwdReceived /\ sent' = OkOnly(rx'.cmd) ) => BootPwdEverSet'
        /\ BootPwdEverSet
           => ( /\ BootPwdEverSet'
                /\ eepBootPwd' = eepBootPwd
                /\ ( SetBootPwdReceived /\ rx'.caller # USB_CALLER_PIN )
                   => sent' = ErrorOnly(rx'.cmd) ) ]_vars

\* C24 amended: from a CMD_SET_BOOTLOADER_PWD answered PLUGIN_BYTE_OK until a
\* CMD_JUMP_TO_BOOTLOADER is allowed, every CMD_SET_BOOTLOADER_PWD that reaches
\* its handler is answered PLUGIN_BYTE_ERROR, none is answered OK and the
\* password at EEP_BOOT_PWD is not overwritten; only an allowed jump clears the
\* flag at EEP_BOOT_PWD_SET, and while the flag is clear, before the first
\* password or after a jump, a CMD_SET_BOOTLOADER_PWD of PACKET_EXPORT_SIZE
\* bytes is answered OK and writes its payload as the password; nothing else
\* writes the password.
C24_BootPwdSetUntilJump ==
    [][ /\ ( SetBootPwdReceived /\ sent' = OkOnly(rx'.cmd) )
           => ( ~BootPwdSet /\ BootPwdSet' )
        /\ BootPwdSet
           => ( /\ eepBootPwd' = eepBootPwd
                /\ ~BootPwdSet' => JumpTaken
                /\ SetBootPwdReceived
                   => ( /\ sent' # OkOnly(rx'.cmd)
                        /\ rx'.caller # USB_CALLER_PIN => sent' = ErrorOnly(rx'.cmd) ) )
        /\ eepBootPwd' # eepBootPwd
           => ( SetBootPwdReceived /\ ~BootPwdSet /\ sent' = OkOnly(rx'.cmd) )
        /\ ( /\ SetBootPwdReceived /\ rx'.caller # USB_CALLER_PIN
             /\ ~BootPwdSet /\ rx'.len = PACKET_EXPORT_SIZE )
           => ( /\ sent' = OkOnly(rx'.cmd)
                /\ eepBootPwd' = PayloadBytes(rx', 0, PACKET_EXPORT_SIZE) ) ]_vars

\* a second password was refused while the first is set
C24_Witness ==
    /\ rx.cmd = "CMD_SET_BOOTLOADER_PWD"
    /\ rx.caller # USB_CALLER_PIN
    /\ rx.len = PACKET_EXPORT_SIZE
    /\ BootPwdSet
    /\ ~BootPwdSent(rx)
    /\ sent = ErrorOnly("CMD_SET_BOOTLOADER_PWD")

JumpReceived == Received /\ rx'.cmd = "CMD_JUMP_TO_BOOTLOADER"
EepromWrites == { "eeprom_write_byte", "eeprom_write_word", "eeprom_write_block" }
\* every call named f in cs comes after an approved confirmation
AfterApproval(cs, f) ==
    \A j \in 1..Len(cs) :
        cs[j][1] = f
        => \E i \in 1..(j - 1) : cs[i] = Call("guiAskForConfirmation", RETURN_OK)
JumpConditions ==
    /\ BootPwdSet
    /\ rx'.len = PACKET_EXPORT_SIZE
    /\ Approved(calls')
    /\ BootPwdSent(rx')

\* C25: CMD_JUMP_TO_BOOTLOADER writes BOOTLOADER_BOOTKEY to EEP_BOOTKEY_ADDR and
\* arms the watchdog only if the bootloader password is set, datalen is
\* PACKET_EXPORT_SIZE, the user approved and the payload is the stored password;
\* the stored password is read and compared only after the user approved; if a
\* condition fails nothing is written to the EEPROM and there is no reset.
C25_JumpGuarded ==
    [][ JumpReceived
        => /\ ( \/ "wdt_enable_2s" \in CallNames(calls')
                \/ eepBootkey' # eepBootkey
                \/ CallNames(calls') \cap EepromWrites # { } ) => JumpConditions
           /\ AfterApproval(calls', "memcmp")
           /\ AfterApproval(calls', "eeprom_read_block")
           /\ ~JumpConditions
              => ( /\ UNCHANGED programVars
                   /\ CallNames(calls') \cap EepromWrites = { }
                   /\ "wdt_enable_2s" \notin CallNames(calls') ) ]_vars

\* the jump was taken: boot key written, watchdog armed, after an approval
C25_Witness ==
    /\ rx.cmd = "CMD_JUMP_TO_BOOTLOADER"
    /\ Approved(calls)
    /\ "memcmp" \in CallNames(calls)
    /\ "wdt_enable_2s" \in CallNames(calls)
    /\ eepBootkey = BOOTLOADER_BOOTKEY

\* checkMooltipassPassword ran during the call
PasswordChecked(cs) == CallNames(cs) \cap { "activateTimer", "memcmp", "memset" } # { }
\* the calls of checkMooltipassPassword are in its order: the timer is started
\* once, at a, the comparison is made once, at m, the timer is polled after m
\* and found running every time but the last, at e, and the buffer is cleared
\* once, at z, right after that last poll
TimedComparison(cs) ==
    LET a == FirstCall(cs, "activateTimer")
        m == FirstCall(cs, "memcmp")
        z == FirstCall(cs, "memset")
        e == z - 1
    IN  /\ 0 < a /\ a < m /\ m < e
        /\ cs[a] = Call("activateTimer", TIMER_CREDENTIALS)
        /\ cs[e] = Call("hasTimerExpired", TIMER_EXPIRED)
        /\ cs[z] = Call("memset", 0)
        /\ \A k \in 1..Len(cs) :
              /\ ( cs[k][1] = "hasTimerExpired" /\ k # e )
                 => ( m < k /\ k < e /\ cs[k][2] = TIMER_RUNNING )
              /\ cs[k][1] = "activateTimer" => k = a
              /\ cs[k][1] = "memcmp" => k = m
              /\ cs[k][1] = "memset" => k = z

\* C30: whenever checkMooltipassPassword runs, for a matching and for a
\* mismatching candidate alike, TIMER_CREDENTIALS is started before the
\* comparison, the function goes on only after hasTimerExpired has stopped
\* reporting TIMER_RUNNING, and the local copy of the stored password is zeroed
\* after the comparison and the wait, before the function returns.
C30_TimedPasswordCheck ==
    [][ ( Received /\ PasswordChecked(calls') ) => TimedComparison(calls') ]_vars

\* a mismatching candidate was compared, and the timer was still running at the
\* first poll after the comparison
C30_Witness ==
    /\ \E m \in 1..Len(calls) : calls[m][1] = "memcmp" /\ calls[m][2] # 0
    /\ Call("hasTimerExpired", TIMER_RUNNING) \in { calls[i] : i \in 1..Len(calls) }
    /\ TimedComparison(calls)
    /\ sent = ErrorOnly(rx.cmd)

ContextSelectCmds == { "CMD_CONTEXT", "CMD_SET_DATA_SERVICE" }
ContextReceived == Received /\ rx'.cmd \in ContextSelectCmds
\* setCurrentContext was called and returned RETURN_OK
ContextSelected(cs) ==
    \E i \in 1..Len(cs) : cs[i][1] = "setCurrentContext" /\ cs[i][2][3] = RETURN_OK

\* C26: for CMD_CONTEXT and CMD_SET_DATA_SERVICE setCurrentContext is called
\* only when the card is inserted and unlocked; when it is not, the current
\* context is left as it was and the response is not PLUGIN_BYTE_OK; when it is,
\* the response is PLUGIN_BYTE_OK iff setCurrentContext returned RETURN_OK.
C26_ContextNeedsUnlockedCard ==
    [][ ContextReceived
        => /\ "setCurrentContext" \in CallNames(calls') => cardUnlocked
           /\ ~cardUnlocked
              => ( currentContext' = currentContext /\ sent' # OkOnly(rx'.cmd) )
           /\ cardUnlocked
              => ( sent' = OkOnly(rx'.cmd) <=> ContextSelected(calls') ) ]_vars

\* a context was selected with an unlocked card
C26_Witness ==
    /\ rx.cmd \in ContextSelectCmds
    /\ cardUnlocked
    /\ ContextSelected(calls)
    /\ currentContext # NoContext
    /\ sent = OkOnly(rx.cmd)

\* populateServicesLut is called before the first setCurrentContext of the call
RefreshedBeforeLookup(cs) ==
    /\ "populateServicesLut" \in CallNames(cs)
    /\ FirstCall(cs, "populateServicesLut") < FirstCall(cs, "setCurrentContext")

\* C27: for CMD_CONTEXT and for CMD_SET_DATA_SERVICE, whenever
\* memoryManagementModeApproved is TRUE the service lookup table is refreshed by
\* populateServicesLut before setCurrentContext makes its lookup.
C27_LutRefreshedBeforeLookup ==
    [][ ( /\ ContextReceived
          /\ memoryManagementModeApproved = TRUE
          /\ "setCurrentContext" \in CallNames(calls') )
        => RefreshedBeforeLookup(calls') ]_vars

ConfirmingCmds ==
    { "CMD_START_MEMORYMGMT", "CMD_IMPORT_MEDIA_START", "CMD_UNLOCK_WITH_PIN",
      "CMD_READ_CARD_PASS", "CMD_SET_CARD_LOGIN", "CMD_SET_CARD_PASS",
      "CMD_JUMP_TO_BOOTLOADER" }
\* the call returned to its caller: it did not end in the watchdog reset
Returned(cs) == "wdt_enable_2s" \notin CallNames(cs)
\* guiGetBackToCurrentScreen is called after every guiAskForConfirmation
RestoredAfterPrompt(cs) ==
    \A i \in 1..Len(cs) :
        cs[i][1] = "guiAskForConfirmation"
        => \E j \in (i + 1)..Len(cs) : cs[j][1] = "guiGetBackToCurrentScreen"

\* C28: the handlers that call guiAskForConfirmation are those of
\* CMD_START_MEMORYMGMT, CMD_IMPORT_MEDIA_START, CMD_UNLOCK_WITH_PIN,
\* CMD_READ_CARD_PASS, CMD_SET_CARD_LOGIN, CMD_SET_CARD_PASS and
\* CMD_JUMP_TO_BOOTLOADER, and on every path on which usbProcessIncoming
\* returns, approved or not, guiGetBackToCurrentScreen is called after the
\* confirmation and before the return.
C28_ScreenRestoredAfterPrompt ==
    [][ ( Received /\ Asked(calls') )
        => /\ rx'.cmd \in ConfirmingCmds
           /\ Returned(calls') => RestoredAfterPrompt(calls') ]_vars

\* a prompt was denied or timed out and the screen was restored
C28_Witness ==
    /\ rx.cmd \in ConfirmingCmds
    /\ Call("guiAskForConfirmation", RETURN_NOK) \in { calls[i] : i \in 1..Len(calls) }
    /\ RestoredAfterPrompt(calls)
    /\ sent = ErrorOnly(rx.cmd)

CardSecretCmds == { "CMD_SET_CARD_LOGIN", "CMD_SET_CARD_PASS", "CMD_READ_CARD_PASS" }
CardSecretReceived == Received /\ rx'.cmd \in CardSecretCmds
CardZoneOps ==
    { "eraseApplicationZone1NZone2SMC", "writeApplicationZone1", "writeApplicationZone2" }
\* a response to CMD_READ_CARD_PASS other than the error byte: the password
PassSent(ms) ==
    \E i \in 1..Len(ms) :
        /\ ms[i].cmd = "CMD_READ_CARD_PASS"
        /\ ms[i] # StatusByteMsg("CMD_READ_CARD_PASS", PLUGIN_BYTE_ERROR)
\* the card was touched or its password released during the call
CardSecretUsed ==
    \/ CallNames(calls') \cap CardZoneOps # { }
    \/ "readMooltipassWebsitePassword" \in CallNames(calls')
    \/ cardZones' # cardZones
    \/ PassSent(sent')

\* C29: CMD_SET_CARD_LOGIN and CMD_SET_CARD_PASS erase or write the card's
\* application zones, and CMD_READ_CARD_PASS sends the card-stored password,
\* only when the card is inserted and unlocked and guiAskForConfirmation
\* returned RETURN_OK for that packet; on denial, timeout or a locked card no
\* zone is erased or written, no password is sent, and the handler answers
\* PLUGIN_BYTE_ERROR.
C29_CardSecretsNeedApproval ==
    [][ CardSecretReceived
        => /\ CardSecretUsed => ( cardUnlocked /\ Approved(calls') )
           /\ ~( cardUnlocked /\ Approved(calls') )
              => ( /\ ~CardSecretUsed
                   /\ rx'.caller # USB_CALLER_PIN => sent' = ErrorOnly(rx'.cmd) ) ]_vars

\* an approved CMD_SET_CARD_LOGIN wrote the login zone of the unlocked card
C29_Witness ==
    /\ rx.cmd = "CMD_SET_CARD_LOGIN"
    /\ cardUnlocked
    /\ Approved(calls)
    /\ "writeApplicationZone2" \in CallNames(calls)
    /\ cardZones[cardUser].login # NoCardText.login
    /\ sent = OkOnly("CMD_SET_CARD_LOGIN")

\* the calls that service the watchdog or the idle tick
ServiceCalls == { "wdt_reset", "activityDetectedRoutine", "timerBasedDelayMs", "userViewDelay" }
\* every poll of the trace that found the timer running is followed by a
\* service call before the next poll
WaitServiced(cs) ==
    \A i \in 1..Len(cs) :
        cs[i] = Call("hasTimerExpired", TIMER_RUNNING) =>
            /\ i < Len(cs)
            /\ cs[i + 1][1] \in ServiceCalls

\* C31: every iteration of the busy-wait on TIMER_CREDENTIALS in
\* checkMooltipassPassword performs a watchdog or idle-tick service step. The
\* loop of usb_cmd_parser.c:88 has an empty body: a poll that finds the timer
\* running is followed by the next poll and nothing else.
C31_WaitServicesWatchdog ==
    [][Received => WaitServiced(calls')]_vars

(***************************************************************************)
(* The card specification: unlocking, adding and resetting a card          *)
(***************************************************************************)
\* a CMD_ADD_UNKNOWN_CARD payload: the code protected zone of the unknown card
\* with its last byte replaced by `last`, then the counter
CardPayload(last) ==
    [ i \in 1..(SMARTCARD_CPZ_LENGTH + AES256_CTR_LENGTH) |->
        IF i = SMARTCARD_CPZ_LENGTH THEN last
        ELSE IF i < SMARTCARD_CPZ_LENGTH THEN 40 + NO_USER + i
        ELSE 9 ]
CardPackets ==
    { Pkt("CMD_ADD_UNKNOWN_CARD", SMARTCARD_CPZ_LENGTH + AES256_CTR_LENGTH, CardPayload(last)) :
        last \in { 40 + NO_USER + SMARTCARD_CPZ_LENGTH, 99 } }
    \cup { Pkt("CMD_ADD_UNKNOWN_CARD", SMARTCARD_CPZ_LENGTH,
               CardPayload(40 + NO_USER + SMARTCARD_CPZ_LENGTH)),
           Pkt("CMD_RESET_CARD", 0, << >>),
           Pkt("CMD_READ_CARD_LOGIN", 0, << >>) }
    \cup { Pkt("CMD_UNLOCK_WITH_PIN", len, << 1, 2 >>) : len \in { 1, 2 } }

\* packets received in one run of the card specification
MaxCardPackets == 3

NextCard == Dispatch(CardPackets, MaxCardPackets) \/ CardRemoved \/ InsertCard \/ CardUnlockedByPin

SpecCard == Init /\ [][NextCard]_vars

\* call `f` of the trace returned `v`
CallReturned(cs, f, v) == \E i \in 1..Len(cs) : cs[i] = Call(f, v)
\* the calls of fs are all in the trace, first made in the order of fs
CalledInOrder(cs, fs) ==
    /\ \A k \in 1..Len(fs) : fs[k] \in CallNames(cs)
    /\ \A k \in 1..(Len(fs) - 1) : FirstCall(cs, fs[k]) < FirstCall(cs, fs[k + 1])

AddCardReceived == Received /\ rx'.cmd = "CMD_ADD_UNKNOWN_CARD"
MarkedUnlocked(cs) == "setSmartCardInsertedUnlocked" \in CallNames(cs)
\* the conditions of CMD_ADD_UNKNOWN_CARD, on the packet of the step, the state
\* before it and what the two collaborators returned
AddCardConditions ==
    /\ rx'.len = SMARTCARD_CPZ_LENGTH + AES256_CTR_LENGTH
    /\ currentScreen = SCREEN_DEFAULT_INSERTED_UNKNOWN
    /\ \A i \in 1..SMARTCARD_CPZ_LENGTH : rx'.data[i] = readCodeProtectedZone[i]
    /\ CallReturned(calls', "guiCardUnlockingProcess", RETURN_OK)
    /\ CallReturned(calls', "addNewUserForExistingCard", RETURN_OK)

\* C32: for every CMD_ADD_UNKNOWN_CARD packet, setSmartCardInsertedUnlocked()
\* is called only if the length is SMARTCARD_CPZ_LENGTH + AES256_CTR_LENGTH,
\* the screen is SCREEN_DEFAULT_INSERTED_UNKNOWN, the CPZ sent is the card's,
\* guiCardUnlockingProcess and addNewUserForExistingCard both returned
\* RETURN_OK, and only after readAES256BitsKey, initUserFlashContext and
\* initEncryptionHandling ran in that order; when a condition fails the session
\* is not marked unlocked and the handler answers PLUGIN_BYTE_ERROR.
C32_AddCardUnlocksLast ==
    [][ AddCardReceived
        => /\ MarkedUnlocked(calls')
              => /\ AddCardConditions
                 /\ CalledInOrder(calls', << "readAES256BitsKey", "initUserFlashContext",
                                             "initEncryptionHandling",
                                             "setSmartCardInsertedUnlocked" >>)
           /\ ~AddCardConditions
              => /\ ~MarkedUnlocked(calls')
                 /\ cardUnlocked' = cardUnlocked
                 /\ rx'.caller # USB_CALLER_PIN => sent' = ErrorOnly(rx'.cmd) ]_vars

\* an unknown card was added with its own CPZ: the session is unlocked for the
\* new user
C32_Witness ==
    /\ rx.cmd = "CMD_ADD_UNKNOWN_CARD"
    /\ MarkedUnlocked(calls)
    /\ CallReturned(calls, "addNewUserForExistingCard", RETURN_OK)
    /\ cardUnlocked
    /\ currentUserID \in Users
    /\ currentScreen = SCREEN_DEFAULT_INSERTED_NLCK
    /\ sent = OkOnly("CMD_ADD_UNKNOWN_CARD")

UnlockReceived == Received /\ rx'.cmd = "CMD_UNLOCK_WITH_PIN"
ResetReceived == Received /\ rx'.cmd = "CMD_RESET_CARD"
PinGiven(cs) == "validCardDetectedFunction" \in CallNames(cs)
CardWiped(cs) == "eraseSmartCard" \in CallNames(cs)
\* the first three conditions of CMD_UNLOCK_WITH_PIN, on the packet of the step
\* and the state before it
UnlockScreened == rx'.len = 2 /\ currentScreen = SCREEN_DEFAULT_INSERTED_LCK
UnlockDetected ==
    UnlockScreened /\ CallReturned(calls', "cardDetectedRoutine", RETURN_MOOLTIPASS_USER)
\* the conditions of CMD_RESET_CARD
ResetConditions ==
    /\ currentScreen = SCREEN_DEFAULT_INSERTED_UNKNOWN
    /\ CallReturned(calls', "guiCardUnlockingProcess", RETURN_OK)

\* C33: CMD_UNLOCK_WITH_PIN gives the PIN of the packet to the card
\* (validCardDetectedFunction) only if the length is 2, the screen is
\* SCREEN_DEFAULT_INSERTED_LCK, cardDetectedRoutine reported a user card and
\* the prompt was approved, each condition evaluated only when the ones before
\* it held; CMD_RESET_CARD calls eraseSmartCard only if the screen is
\* SCREEN_DEFAULT_INSERTED_UNKNOWN and guiCardUnlockingProcess returned
\* RETURN_OK; otherwise the card is untouched and the handler answers
\* PLUGIN_BYTE_ERROR.
C33_CardOpsGated ==
    [][ /\ UnlockReceived
           => /\ PinGiven(calls')
                 => /\ UnlockDetected /\ Approved(calls')
                    /\ CalledInOrder(calls', << "getCurrentScreen", "cardDetectedRoutine",
                                                "guiAskForConfirmation",
                                                "validCardDetectedFunction" >>)
              /\ Asked(calls') => UnlockDetected
              /\ "cardDetectedRoutine" \in CallNames(calls') => UnlockScreened
              /\ "getCurrentScreen" \in CallNames(calls') /\ rx'.caller # USB_CALLER_PIN
                 => rx'.len = 2
              /\ ~( UnlockDetected /\ Approved(calls') )
                 => /\ ~PinGiven(calls')
                    /\ UNCHANGED << cardZones, cardUnlocked, currentScreen >>
                    /\ rx'.caller # USB_CALLER_PIN => sent' = ErrorOnly(rx'.cmd)
        /\ ResetReceived
           => /\ CardWiped(calls') => ResetConditions
              /\ ~ResetConditions
                 => /\ ~CardWiped(calls')
                    /\ UNCHANGED << cardZones, cardUnlocked, currentScreen >>
                    /\ rx'.caller # USB_CALLER_PIN => sent' = ErrorOnly(rx'.cmd) ]_vars

\* the PIN of an approved CMD_UNLOCK_WITH_PIN was given to the locked card of a
\* user and unlocked it
C33_Witness ==
    /\ rx.cmd = "CMD_UNLOCK_WITH_PIN"
    /\ rx.len = 2
    /\ Approved(calls)
    /\ CallReturned(calls, "validCardDetectedFunction", << 1 + 256 * 2, RETURN_VCARD_OK >>)
    /\ cardUnlocked
    /\ sent = OkOnly("CMD_UNLOCK_WITH_PIN")

(***************************************************************************)
(* The parameter specification                                             *)
(***************************************************************************)
\* a parameter that has no cached copy
USER_INTER_TIMEOUT_PARAM == 2
ParmPackets ==
    { Pkt("CMD_SET_MOOLTIPASS_PARM", len, << param, val >>) :
        len \in { 1, 2, 3 }, param \in { LOCK_TIMEOUT_ENABLE_PARAM, USER_INTER_TIMEOUT_PARAM },
        val \in { 0, 1 } }
    \cup { Pkt("CMD_GET_MOOLTIPASS_PARM", 1, << param >>) :
            param \in { LOCK_TIMEOUT_ENABLE_PARAM, USER_INTER_TIMEOUT_PARAM } }

\* packets received in one run of the parameter specification
MaxParmPackets == 3

NextParm == Dispatch(ParmPackets, MaxParmPackets) \/ CardRemoved \/ InsertCard \/ CardUnlockedByPin

SpecParm == Init /\ [][NextParm]_vars

SetParmReceived == Received /\ rx'.cmd = "CMD_SET_MOOLTIPASS_PARM"

MediaPackets ==
    { Pkt("CMD_IMPORT_MEDIA_START", len, Block(PACKET_EXPORT_SIZE, 1)) :
        len \in { 1, PACKET_EXPORT_SIZE } }
    \cup { Pkt("CMD_IMPORT_MEDIA", len, Block(len, 3)) : len \in { 3, PACKET_EXPORT_SIZE } }
    \cup { Pkt("CMD_IMPORT_MEDIA_END", 0, << >>) }

\* packets received in one run of the media specification
MaxMediaPackets == 4

NextMedia == Dispatch(MediaPackets, MaxMediaPackets) \/ CardRemoved \/ InsertCard \/ CardUnlockedByPin

SpecMedia == Init /\ [][NextMedia]_vars

ImportReceived == Received /\ rx'.cmd = "CMD_IMPORT_MEDIA"
ImportEndReceived == Received /\ rx'.cmd = "CMD_IMPORT_MEDIA_END"
ImportAccepted == ImportReceived /\ sent' = OkOnly("CMD_IMPORT_MEDIA")
\* the pages the call trace commits the staging buffer to
CommittedPages(cs) == { cs[i][2] : i \in { j \in 1..Len(cs) : cs[j][1] = "flashWriteBufferToPage" } }
GraphicZone == GRAPHIC_ZONE_PAGE_START..(GRAPHIC_ZONE_PAGE_END - 1)

\* C36: a CMD_IMPORT_MEDIA packet is accepted only if mediaFlashImportApproved
\* is TRUE, the page is below GRAPHIC_ZONE_PAGE_END and offset + length is at
\* most BYTES_PER_PAGE; between packets the offset is below BYTES_PER_PAGE;
\* every page CMD_IMPORT_MEDIA or CMD_IMPORT_MEDIA_END commits lies in the
\* graphic zone; CMD_IMPORT_MEDIA commits exactly when the offset reaches
\* BYTES_PER_PAGE (the offset then returns to 0 and the page advances) and
\* CMD_IMPORT_MEDIA_END exactly when the import is approved and the offset is
\* not 0.
C36_ImportCursorInZone ==
    [][ /\ mediaFlashImportOffset' < BYTES_PER_PAGE
        /\ ImportAccepted
           => /\ mediaFlashImportApproved = TRUE
              /\ mediaFlashImportPage < GRAPHIC_ZONE_PAGE_END
              /\ mediaFlashImportOffset + rx'.len <= BYTES_PER_PAGE
        /\ ImportReceived \/ ImportEndReceived
           => /\ CommittedPages(calls') \subseteq GraphicZone
              /\ flash' # flash => CommittedPages(calls') # {}
        /\ ImportReceived
           => /\ CommittedPages(calls') # {}
                 <=> ( ImportAccepted /\ mediaFlashImportOffset + rx'.len = BYTES_PER_PAGE )
              /\ CommittedPages(calls') # {}
                 => /\ CommittedPages(calls') = { mediaFlashImportPage }
                    /\ mediaFlashImportOffset' = 0
                    /\ mediaFlashImportPage' = mediaFlashImportPage + 1
                    /\ flash'[mediaFlashImportPage] = flashBuf'
              /\ ImportAccepted /\ CommittedPages(calls') = {}
                 => /\ mediaFlashImportOffset' = mediaFlashImportOffset + rx'.len
                    /\ mediaFlashImportPage' = mediaFlashImportPage
        /\ ImportEndReceived /\ rx'.caller # USB_CALLER_PIN
           => /\ CommittedPages(calls') # {}
                 <=> ( mediaFlashImportApproved = TRUE /\ mediaFlashImportOffset # 0 )
              /\ CommittedPages(calls') # {}
                 => /\ CommittedPages(calls') = { mediaFlashImportPage }
                    /\ flash'[mediaFlashImportPage] = flashBuf ]_vars

\* the packet that filled the page: the page is committed with the bytes of
\* the packets, the offset is back at 0 and the page past the zone
C36_Witness ==
    /\ rx.cmd = "CMD_IMPORT_MEDIA"
    /\ sent = OkOnly("CMD_IMPORT_MEDIA")
    /\ CommittedPages(calls) = { GRAPHIC_ZONE_PAGE_START }
    /\ mediaFlashImportOffset = 0
    /\ mediaFlashImportPage = GRAPHIC_ZONE_PAGE_START + 1
    /\ flash[GRAPHIC_ZONE_PAGE_START] = flashBuf
    /\ flashBuf[1] = 3

(***************************************************************************)
(* The data specification: data services and their blocks                  *)
(***************************************************************************)
DataPackets ==
    { Pkt(cmd, 2, LowerName) : cmd \in { "CMD_ADD_DATA_SERVICE", "CMD_SET_DATA_SERVICE" } }
    \cup { Pkt("CMD_WRITE_32B_IN_DN", len, [ i \in 1..(1 + DATA_NODE_BLOCK_SIZ) |-> 20 + i ]) :
            len \in { 1, 1 + DATA_NODE_BLOCK_SIZ } }

\* packets received in one run of the data specification
MaxDataPackets == 3

NextData == Dispatch(DataPackets, MaxDataPackets) \/ CardRemoved \/ InsertCard \/ CardUnlockedByPin

SpecData == Init /\ [][NextData]_vars

\* C37: a CMD_WRITE_32B_IN_DN packet whose length is not
\* 1 + DATA_NODE_BLOCK_SIZ is answered PLUGIN_BYTE_ERROR and appends no block
\* to the current data context. The code calls addDataForDataContext before it
\* tests the length: the packet is answered PLUGIN_BYTE_ERROR and the block is
\* appended all the same.
C37_WrongLengthAppendsNothing ==
    [][ ( /\ Received
          /\ rx'.cmd = "CMD_WRITE_32B_IN_DN"
          /\ rx'.caller # USB_CALLER_PIN
          /\ rx'.len # 1 + DATA_NODE_BLOCK_SIZ )
        => ( sent' = ErrorOnly(rx'.cmd) /\ dataBlocks' = dataBlocks ) ]_vars

\* C38: a CMD_JUMP_TO_BOOTLOADER packet that is refused (password not set,
\* wrong length, denial or password mismatch) is answered with exactly one
\* 1-byte PLUGIN_BYTE_ERROR message under the command id, through the trailer.
\* The case block of the command has no break: a refused jump runs on into the
\* default case, which returns, and nothing is sent.
C38_RefusedJumpAnswered ==
    [][ ( JumpReceived /\ rx'.caller # USB_CALLER_PIN /\ ~JumpConditions )
        => ( sent' = ErrorOnly(rx'.cmd) /\ viaTrailer' ) ]_vars

\* C39: a CMD_IMPORT_MEDIA packet is accepted only if the most recent
\* CMD_IMPORT_MEDIA_START was answered PLUGIN_BYTE_OK and neither a
\* CMD_IMPORT_MEDIA_END nor a refused CMD_IMPORT_MEDIA came since; a
\* CMD_IMPORT_MEDIA_START answered PLUGIN_BYTE_ERROR leaves
\* mediaFlashImportApproved FALSE. The code sets the flag when a start is
\* allowed and leaves it as it was when a start is refused.
C39_ImportNeedsLastStartApproved ==
    [][ /\ ImportAccepted => importOpen
        /\ ( ImportStartReceived /\ sent' = ErrorOnly(rx'.cmd) )
           => mediaFlashImportApproved' = FALSE ]_vars

(***************************************************************************)
(* The shared-buffer specification: a node write and a media import        *)
(***************************************************************************)
SharedPackets ==
    { Pkt("CMD_START_MEMORYMGMT", 0, << >>),
      Pkt("CMD_IMPORT_MEDIA_START", PACKET_EXPORT_SIZE, Block(PACKET_EXPORT_SIZE, 1)),
      Pkt("CMD_IMPORT_MEDIA", 3, Block(3, 3)) }
    \cup { WritePkt(NodeAddress(1, 0), sub, 3 + ChunkLen(sub), 1) : sub \in 0..LastSubIndex }

\* packets received in one run of the shared-buffer specification
MaxSharedPackets == 6

NextShared ==
    Dispatch(SharedPackets, MaxSharedPackets) \/ CardRemoved \/ InsertCard \/ CardUnlockedByPin

SpecShared == Init /\ [][NextShared]_vars

\* C40: the page the final CMD_WRITE_FLASH_NODE packet of node N commits is the
\* page loaded at sub-index 0 with the payloads of the write packets accepted
\* for N laid over it, whatever other commands came between the write packets.
\* CMD_IMPORT_MEDIA stages its bytes in the same buffer of the flash chip: a
\* media packet between two write packets ends up in the committed page.
C40_WriteImageSurvivesInterleaving ==
    [][ ( /\ Received
          /\ rx'.cmd = "CMD_WRITE_FLASH_NODE"
          /\ WriteCommitted )
        => flash'[pageNumberFromAddress(PktAddr(rx'))] = wrImage'.image ]_vars

(***************************************************************************)
(* The return specification: one call of usbProcessIncoming in steps.      *)
(* The call is entered, polls the credential timer at usb_cmd_parser.c:88  *)
(* while it runs, and is left by a return or by the spin of :1261.  The    *)
(* effects of the call are those of the handler, taken when it is left.    *)
(***************************************************************************)
ReturnPackets ==
    { Pkt("CMD_SET_BOOTLOADER_PWD", PACKET_EXPORT_SIZE, Block(PACKET_EXPORT_SIZE, 1)),
      Pkt("CMD_JUMP_TO_BOOTLOADER", 1, Block(PACKET_EXPORT_SIZE, 1)),
      Pkt("CMD_IMPORT_MEDIA_START", PACKET_EXPORT_SIZE, Block(PACKET_EXPORT_SIZE, 2)),
      Pkt("CMD_IMPORT_MEDIA_END", 0, << >>),
      Pkt("CMD_GET_CARD_CPZ_CTR", 0, << >>) }
    \cup { Pkt("CMD_JUMP_TO_BOOTLOADER", PACKET_EXPORT_SIZE, Block(PACKET_EXPORT_SIZE, b)) :
            b \in { 1, 2 } }

\* packets received in one run of the return specification
MaxReturnPackets == 3

\* the call under way can reach checkMooltipassPassword, usb_cmd_parser.c:848,
\* :1209 and :1268
CheckReachable(caller, p) ==
    /\ ~IsStatusRequest(caller, p.cmd)
    /\ \/ /\ p.cmd = "CMD_GET_UID"
          /\ p.len = UID_REQUEST_KEY_SIZE
          /\ eepUidRequestKeySet = UID_REQUEST_KEY_OK_KEY
       \/ /\ p.cmd \in { "CMD_JUMP_TO_BOOTLOADER", "CMD_IMPORT_MEDIA_START" }
          /\ p.len = PACKET_EXPORT_SIZE
          /\ BootPwdSet
\* the polls of a call trace that found the timer running
RunningPolls(cs) ==
    Cardinality({ i \in 1..Len(cs) : cs[i] = Call("hasTimerExpired", TIMER_RUNNING) })

\* the main loop calls usbProcessIncoming with a packet received
EnterCall ==
    \E caller \in Callers, p \in ReturnPackets :
        /\ pc = "idle"
        /\ nPackets < MaxReturnPackets
        /\ CallerPossible(caller)
        /\ PathModelled(caller, p)
        /\ pc' = "called"
        /\ pending' = [ caller |-> caller, p |-> p ]
        /\ waited' = 0
        /\ UNCHANGED << programVars, histVars, ghostVars, obsVars >>

\* one iteration of the loop of usb_cmd_parser.c:88: the timer is still running
PollTimer ==
    /\ pc \in { "called", "waiting" }
    /\ CheckReachable(pending.caller, pending.p)
    /\ waited < MaxTimerPolls
    /\ pc' = "waiting"
    /\ waited' = waited + 1
    /\ UNCHANGED << programVars, histVars, ghostVars, obsVars, pending >>

\* the timer polled expired, or there was no wait: the handler runs to its
\* return, or to the spin that follows the arming of the watchdog
LeaveCall ==
    /\ pc \in { "called", "waiting" }
    /\ usbProcessIncoming(pending.caller, pending.p)
    /\ Observe(pending.caller, pending.p)
    /\ RunningPolls(calls') = waited

\* the watchdog armed at usb_cmd_parser.c:1259 resets the device
WatchdogReset ==
    /\ pc = "spinning"
    /\ pc' = "idle"
    /\ UNCHANGED << programVars, histVars, ghostVars, obsVars, pending, waited >>

\* card events are handled by the main loop, between two calls
RemovedBetweenCalls == pc = "idle" /\ CardRemoved
InsertedBetweenCalls == pc = "idle" /\ InsertCard
UnlockedBetweenCalls == pc = "idle" /\ CardUnlockedByPin

NextReturn ==
    \/ EnterCall
    \/ PollTimer
    \/ LeaveCall
    \/ WatchdogReset
    \/ RemovedBetweenCalls
    \/ InsertedBetweenCalls
    \/ UnlockedBetweenCalls

\* the handler makes progress once called: every collaborator returns and
\* TIMER_CREDENTIALS expires
SpecReturn == Init /\ [][NextReturn]_vars /\ WF_vars(LeaveCall)

CallUnderWay == pc \in { "called", "waiting" }
\* the call ended in the spin of an approved CMD_JUMP_TO_BOOTLOADER
SpinsAfterApprovedJump ==
    /\ pc = "spinning"
    /\ rx.cmd = "CMD_JUMP_TO_BOOTLOADER"
    /\ rx.len = PACKET_EXPORT_SIZE
    /\ Approved(calls)
    /\ CallReturned(calls, "memcmp", 0)
    /\ eepBootkey = BOOTLOADER_BOOTKEY

\* C35: every call of usbProcessIncoming, for every packet and state,
\* eventually returns, given that the collaborators return and
\* TIMER_CREDENTIALS expires, except that a CMD_JUMP_TO_BOOTLOADER that was
\* approved arms the watchdog and spins until the reset.
C35_DispatcherReturns == CallUnderWay ~> ( pc = "idle" \/ SpinsAfterApprovedJump )

\* a refused CMD_JUMP_TO_BOOTLOADER returned after it waited for the timer
C35_Witness ==
    /\ pc = "idle"
    /\ rx.cmd = "CMD_JUMP_TO_BOOTLOADER"
    /\ RunningPolls(calls) = MaxTimerPolls
    /\ MaxTimerPolls > 0
    /\ ~CallReturned(calls, "memcmp", 0)
    /\ sent = << >>

====
